---- MODULE Spec2Model ----
\* fly-stat-tracker: the stat tracker's counter/undo engine, the local game
\* log, the entitlement gate that guards "Game Over - Log Stats", and the
\* purchase redemption page (/upgrade/success).
\*
\* The repository holds several revisions of the tracker component.  The
\* variable `revision` says which one is mounted:
\*   "tracker"  src/unnamed/part_001                  (plan / creditsRemaining / freeSavesUsed)
\*   "perPlayer" src/src/app/components/GameTracker.tsx    (trial counted per selected player)
\*   "success"  src/unnamed/part_003  UpgradeSuccessPage (redemption flow)
EXTENDS Integers, Sequences, FiniteSets, TLC

\* ---------------------------------------------------------------- bounds
MaxGames == 3
MaxCount == 1
MaxPlayers == 1
MaxTeamLogs == 2
MaxNow == 1
MaxCredits == 1
MaxSessions == 4
MaxApplied == 2
MaxBought == 2
MaxHistory == 3
MaxSaved == 1
MaxLive == 2
MaxEntries == 2
MaxTaps == 82
MaxShots == 6
YearTicks == 1

\* ------------------------------------------------------ program constants
TRIAL_FREE_GAMES == 2
TRIAL_SAVES == 2
UNDO_CAP == 80
REDEEMED_CAP == 50
PACK_CREDITS == 15

VARIABLES
  revision,          \* which revision of the app is running
  now,               \* Date.now()
  lsEnt,             \* localStorage["fly_entitlement_v1"]
  lsGames,           \* localStorage[STORAGE_KEY_GAMES]
  lsTeamLogs,        \* localStorage[STORAGE_KEY_TEAMLOGS]
  lsProgress,        \* localStorage[STORAGE_KEY_PROGRESS]
  lsEntPage,         \* localStorage[part_003 STORAGE_KEY_ENT]
  lsRedeemed,        \* localStorage["fly_redeemed_sessions_v1"]
  lsFlash,           \* localStorage["fly_purchase_flash_v1"]
  ent,               \* useState<Entitlements>
  games,             \* useState<GameEntry[]>
  counts,            \* useState<Counts>
  undoStack,         \* useState<UndoAction[]>
  playerName,        \* the Player Name input
  selectedPlayer,    \* the player picked in the log
  teamLogs,          \* useState<TeamLog[]>  (ids, newest first)
  selectedTeamLogId,
  showUpgrade,       \* the paywall modal
  nextId,            \* makeId(): the next fresh game id
  runs,              \* the in-flight runs of the success page's effect
  applied,           \* history: how often each session's plan was applied
  entAtStart,        \* history: the entitlement the tracker first loaded
  undoStackRef       \* useRef<UndoAction[]>: undoStackRef.current

trackerVars == <<ent, games, counts, undoStack, playerName, selectedPlayer,
                 teamLogs, selectedTeamLogId, showUpgrade, nextId>>
trackerStore == <<lsEnt, lsGames, lsTeamLogs, lsProgress>>
pageStore == <<lsEntPage, lsRedeemed, lsFlash>>
vars == <<revision, now, lsEnt, lsGames, lsTeamLogs, lsProgress, lsEntPage,
          lsRedeemed, lsFlash, ent, games, counts, undoStack, playerName,
          selectedPlayer, teamLogs, selectedTeamLogId, showUpgrade, nextId,
          runs, applied, entAtStart, undoStackRef>>

\* ---------------------------------------------------------------- values
\* A localStorage key that was never written (getItem returns null).
Absent == [absent |-> TRUE]

\* A localStorage value that JSON.parse rejects.
Garbled == [garbled |-> TRUE]
Unreadable == {Absent, Garbled}

\* safeParse: the fallback for a missing value and for text that does not
\* parse, the parsed value otherwise
safeParse(raw, fallback) == IF raw \in Unreadable THEN fallback ELSE raw

\* raw[f] ?? d
Field(raw, f, d) == IF f \in DOMAIN raw THEN raw[f] ELSE d

Names == <<"A", "B", "C", "D">>
Players == {Names[i] : i \in 1..MaxPlayers}
\* what can be typed into the Player Name input
TypedNames == {"", " "} \cup Players
\* String.prototype.trim on the typed names
Trim_none(s) == s
Trim(s) == IF s = " " THEN "" ELSE s
NameIndex(p) == CHOOSE i \in 1..Len(Names) : Names[i] = p
\* Array.prototype.sort()[0] || ""
FirstSorted(S) ==
  IF S = {} THEN ""
  ELSE CHOOSE p \in S : \A q \in S : NameIndex(p) <= NameIndex(q)

SeqRange(s) == {s[i] : i \in 1..Len(s)}
Take(s, n) == IF Len(s) <= n THEN s ELSE SubSeq(s, 1, n)
Max0(n) == IF n < 0 THEN 0 ELSE n
RECURSIVE FilterSeq(_, _)
\* Array.prototype.filter with the predicate given as the set of kept elements
FilterSeq(s, keep) ==
  IF s = <<>> THEN <<>>
  ELSE IF Head(s) \in keep THEN <<Head(s)>> \o FilterSeq(Tail(s), keep)
  ELSE FilterSeq(Tail(s), keep)

\* g.filter((x) => x.id !== id)
removeGame_dropsRest(gs, id) == <<>>
removeGame(gs, id) == FilterSeq(gs, {g \in SeqRange(gs) : g.id # id})

\* ------------------------------------------------------------ live counts
\* Two of the twelve counters; every counter is changed by the same inc().
Keys == {"ftm", "fta"}
ZeroCounts == [k \in Keys |-> 0]
clamp0(n) == Max0(n)
\* inc(key, delta): setCounts(c => ({...c, [key]: clamp0(c[key] + delta)}))
inc(c, key, delta) == [c EXCEPT ![key] = clamp0(c[key] + delta)]

\* the stat buttons: doAction(label, apply, revert)
Taps == {"Made FT", "Missed FT"}
Apply_madeOnly(label, c) ==
  IF label = "Made FT" THEN inc(c, "ftm", 1) ELSE inc(c, "fta", 1)
Apply(label, c) ==
  IF label = "Made FT" THEN inc(inc(c, "ftm", 1), "fta", 1)
  ELSE inc(c, "fta", 1)
Revert_lastCounter(label, c) == inc(c, "fta", -1)
Revert(label, c) ==
  IF label = "Made FT" THEN inc(inc(c, "ftm", -1), "fta", -1)
  ELSE inc(c, "fta", -1)
\* pushUndo: [action, ...prev].slice(0, 80)
pushUndo(stack, action) == Take(<<action>> \o stack, UNDO_CAP)
\* an undo entry {label, revert}: the revert closure is Revert(label, _);
\* `before` is history, the live counts when the entry was recorded
UndoAction(label, c) == [label |-> label, before |-> c]

\* ------------------------------------------------------ entitlement gate
FreshEnt(t) == [plan |-> "free", creditsRemaining |-> 0, freeSavesUsed |-> 0,
                updatedAt |-> t, singleCreditsUsed |-> 0]

canFinishGame_noTrialLimit(e) ==
  IF e.plan = "annual" THEN TRUE
  ELSE IF e.plan = "credits" THEN e.creditsRemaining > 0
  ELSE TRUE
canFinishGame(e) ==
  IF e.plan = "annual" THEN TRUE
  ELSE IF e.plan = "credits" THEN e.creditsRemaining > 0
  ELSE e.freeSavesUsed < TRIAL_FREE_GAMES

spendFinishCredit_both(e, t) ==
  IF e.plan = "annual" THEN e
  ELSE [e EXCEPT !.creditsRemaining = Max0(e.creditsRemaining - 1),
                 !.freeSavesUsed = e.freeSavesUsed + 1,
                 !.updatedAt = t]
spendFinishCredit(e, t) ==
  IF e.plan = "annual" THEN e
  ELSE IF e.plan = "credits"
    THEN [e EXCEPT !.creditsRemaining = Max0(e.creditsRemaining - 1),
                   !.updatedAt = t]
  ELSE [e EXCEPT !.freeSavesUsed = e.freeSavesUsed + 1, !.updatedAt = t]

\* the entitlement after saveGame's updates: spendFinishCredit(), then, when
\* the rendered plan is "free", singleCreditsUsed + 1
entAfterSave(e, t) ==
  LET spent == spendFinishCredit(e, t)
  IN IF e.plan = "free"
       THEN [spent EXCEPT !.singleCreditsUsed = spent.singleCreditsUsed + 1,
                          !.updatedAt = t]
       ELSE spent

\* --------------------------------------------------- tracker: load/mount
\* loadEntitlement(): a first run persists the legacy record under the key
loadEntitlement(raw) ==
  IF raw = Absent
    THEN [savesRemaining |-> 2, unlimitedUntil |-> 0, redeemedSessions |-> <<>>]
  ELSE raw

loadedEnt_fresh(raw, t) == FreshEnt(t)
\* the load effect's migration of the stored entitlement
loadedEnt(raw, t) ==
  IF raw = Absent THEN FreshEnt(t)
  ELSE IF "creditsRemaining" \in DOMAIN raw /\ "freeSavesUsed" \in DOMAIN raw
    THEN [plan |-> raw.plan, creditsRemaining |-> raw.creditsRemaining,
          freeSavesUsed |-> raw.freeSavesUsed, updatedAt |-> raw.updatedAt,
          singleCreditsUsed |-> Field(raw, "singleCreditsUsed", 0)]
  ELSE IF Field(raw, "plan", "") = "season"
    THEN [plan |-> "annual", creditsRemaining |-> 0,
          freeSavesUsed |-> Field(raw, "singleCreditsUsed", 0),
          updatedAt |-> t,
          singleCreditsUsed |-> Field(raw, "singleCreditsUsed", 0)]
  ELSE [plan |-> "free", creditsRemaining |-> 0,
        freeSavesUsed |-> Field(raw, "singleCreditsUsed", 0),
        updatedAt |-> t,
        singleCreditsUsed |-> Field(raw, "singleCreditsUsed", 0)]

\* games.filter(g => g.teamLogId === id)
gamesForTeamLog(gs, id) == {gs[i] : i \in {j \in 1..Len(gs) : gs[j].teamLogId = id}}
playersForTeamLog(gs, id) == {g.playerName : g \in gamesForTeamLog(gs, id)}

\* the effect on [selectedTeamLogId, playersForTeamLog]: it runs when one of
\* the two changed, and replaces a selection that is empty or not listed
syncSelectedPlayer(sel, gs, id, gs0, id0) ==
  IF id = id0 /\ playersForTeamLog(gs, id) = playersForTeamLog(gs0, id0) THEN sel
  ELSE IF sel = "" \/ sel \notin playersForTeamLog(gs, id)
    THEN FirstSorted(playersForTeamLog(gs, id))
  ELSE sel

\* the stored entitlements a tracker may find when it mounts: nothing (a first
\* run), a credits plan, the annual plan, and the older "season" record
StoredEntInputs ==
  {Absent,
   [plan |-> "credits", creditsRemaining |-> MaxCredits, freeSavesUsed |-> 0,
    updatedAt |-> 0, singleCreditsUsed |-> 0],
   [plan |-> "annual", creditsRemaining |-> 0, freeSavesUsed |-> 0,
    updatedAt |-> 0, singleCreditsUsed |-> 0],
   [plan |-> "season", singleCreditsUsed |-> 1, updatedAt |-> 0]}

Mounted_noDefault(rawEnt, rawGames, rawLogs, rawProgress, t) ==
  LET first == IF rawLogs = <<>> THEN 0 ELSE rawLogs[1]
  IN [ent |-> FreshEnt(t),
      games |-> rawGames,
      teamLogs |-> rawLogs,
      selectedTeamLogId |-> first,
      selectedPlayer |-> "",
      counts |-> ZeroCounts,
      playerName |-> ""]

\* The component after its mount effects ran over the given storage at time t:
\* loadEntitlement, the load effect, then the three persist effects.
Mounted(rawEnt, rawGames, rawLogs, rawProgress, t) ==
  LET logs == IF rawLogs = <<>> THEN <<1>> ELSE rawLogs
  IN [ent |-> loadedEnt(safeParse(loadEntitlement(rawEnt), Absent), t),
      games |-> rawGames,
      teamLogs |-> logs,
      selectedTeamLogId |-> logs[1],
      selectedPlayer |-> FirstSorted(playersForTeamLog(rawGames, logs[1])),
      counts |-> IF rawProgress = Absent THEN ZeroCounts ELSE rawProgress.counts,
      playerName |-> IF rawProgress = Absent THEN "" ELSE rawProgress.playerName]

\* A run of the success page's effect that has not started.
IdleRun == [pc |-> "idle", sessionId |-> 0, msg |-> "Finalizing your purchase..."]
Runs == {1, 2}

InitTracker ==
  /\ revision = "tracker"
  /\ now = 0
  /\ \E raw \in StoredEntInputs :
       LET m == Mounted(raw, <<>>, <<>>, Absent, 0)
       IN /\ ent = m.ent
          /\ lsEnt = m.ent
          /\ entAtStart = m.ent
          /\ undoStackRef = <<>>
          /\ games = m.games
          /\ lsGames = m.games
          /\ teamLogs = m.teamLogs
          /\ lsTeamLogs = m.teamLogs
          /\ selectedTeamLogId = m.selectedTeamLogId
          /\ selectedPlayer = m.selectedPlayer
          /\ counts = m.counts
          /\ playerName = m.playerName
  /\ lsProgress = Absent
  /\ undoStack = <<>>
  /\ showUpgrade = FALSE
  /\ nextId = 1
  /\ lsEntPage = Absent
  /\ lsRedeemed = <<>>
  /\ lsFlash = Absent
  /\ runs = [r \in Runs |-> IdleRun]
  /\ applied = [s \in 1..MaxSessions |-> 0]

\* ------------------------------------------------------ tracker: actions
IsTracker == revision = "tracker"
otherVars == <<revision, lsEntPage, lsRedeemed, lsFlash, runs, applied, entAtStart, undoStackRef>>

\* time passes
Tick ==
  /\ now < MaxNow
  /\ now' = now + 1
  /\ UNCHANGED <<trackerVars, trackerStore, otherVars>>

\* a stat button: doAction(label, apply, revert)
tap(label) ==
  /\ IsTracker
  /\ \A k \in Keys : Apply(label, counts)[k] <= MaxCount
  /\ counts' = Apply(label, counts)
  /\ undoStack' = pushUndo(undoStack, UndoAction(label, counts))
  /\ UNCHANGED <<ent, games, playerName, selectedPlayer, teamLogs,
                 selectedTeamLogId, showUpgrade, nextId>>
  /\ UNCHANGED <<now, trackerStore, otherVars>>

undoLastAction_clearsOnEmpty ==
  /\ IsTracker
  /\ IF undoStack = <<>>
       THEN counts' = ZeroCounts /\ undoStack' = undoStack
       ELSE /\ counts' = Revert(Head(undoStack).label, counts)
            /\ undoStack' = Tail(undoStack)
  /\ UNCHANGED <<ent, games, playerName, selectedPlayer, teamLogs,
                 selectedTeamLogId, showUpgrade, nextId>>
  /\ UNCHANGED <<now, trackerStore, otherVars>>

undoLastAction ==
  /\ IsTracker
  /\ IF undoStack = <<>>
       THEN UNCHANGED <<counts, undoStack>>
       ELSE /\ counts' = Revert(Head(undoStack).label, counts)
            /\ undoStack' = Tail(undoStack)
  /\ UNCHANGED <<ent, games, playerName, selectedPlayer, teamLogs,
                 selectedTeamLogId, showUpgrade, nextId>>
  /\ UNCHANGED <<now, trackerStore, otherVars>>

resetLive_clearsLog ==
  /\ IsTracker
  /\ counts' = ZeroCounts
  /\ undoStack' = <<>>
  /\ games' = <<>>
  /\ lsGames' = <<>>
  /\ UNCHANGED <<ent, playerName, selectedPlayer, teamLogs,
                 selectedTeamLogId, showUpgrade, nextId>>
  /\ UNCHANGED <<now, lsEnt, lsTeamLogs, lsProgress, otherVars>>

resetLive ==
  /\ IsTracker
  /\ counts' = ZeroCounts
  /\ undoStack' = <<>>
  /\ UNCHANGED <<ent, games, playerName, selectedPlayer, teamLogs,
                 selectedTeamLogId, showUpgrade, nextId>>
  /\ UNCHANGED <<now, trackerStore, otherVars>>

setPlayerName(v) ==
  /\ IsTracker
  /\ playerName' = v
  /\ UNCHANGED <<ent, games, counts, undoStack, selectedPlayer, teamLogs,
                 selectedTeamLogId, showUpgrade, nextId>>
  /\ UNCHANGED <<now, trackerStore, otherVars>>

\* the player <select>: the empty option or one of the listed players
setSelectedPlayer(p) ==
  /\ IsTracker
  /\ p = "" \/ p \in playersForTeamLog(games, selectedTeamLogId)
  /\ selectedPlayer' = p
  /\ UNCHANGED <<ent, games, counts, undoStack, playerName, teamLogs,
                 selectedTeamLogId, showUpgrade, nextId>>
  /\ UNCHANGED <<now, trackerStore, otherVars>>

\* the team log <select>, then the selected-player effect
setSelectedTeamLogId(id) ==
  /\ IsTracker
  /\ id \in SeqRange(teamLogs)
  /\ selectedTeamLogId' = id
  /\ selectedPlayer' = syncSelectedPlayer(selectedPlayer, games, id,
                                          games, selectedTeamLogId)
  /\ UNCHANGED <<ent, games, counts, undoStack, playerName, teamLogs,
                 showUpgrade, nextId>>
  /\ UNCHANGED <<now, trackerStore, otherVars>>

addTeamLog ==
  /\ IsTracker
  /\ Len(teamLogs) < MaxTeamLogs
  /\ LET id == Len(teamLogs) + 1
     IN /\ teamLogs' = <<id>> \o teamLogs
        /\ lsTeamLogs' = <<id>> \o teamLogs
        /\ selectedTeamLogId' = id
        /\ selectedPlayer' = syncSelectedPlayer(selectedPlayer, games, id,
                                                games, selectedTeamLogId)
  /\ UNCHANGED <<ent, games, counts, undoStack, playerName, showUpgrade, nextId>>
  /\ UNCHANGED <<now, lsEnt, lsGames, lsProgress, otherVars>>

saveProgress_spendsCredit ==
  /\ IsTracker
  /\ LET p == Trim(playerName)
     IN IF p = ""
          THEN UNCHANGED <<lsProgress, ent, lsEnt>>
          ELSE /\ lsProgress' = [playerName |-> p, counts |-> counts]
               /\ ent' = spendFinishCredit(ent, now)
               /\ lsEnt' = spendFinishCredit(ent, now)
  /\ UNCHANGED <<games, counts, undoStack, playerName, selectedPlayer, teamLogs,
                 selectedTeamLogId, showUpgrade, nextId>>
  /\ UNCHANGED <<now, lsGames, lsTeamLogs, otherVars>>

\* Save Progress: the draft save
saveProgress ==
  /\ IsTracker
  /\ LET p == Trim(playerName)
     IN IF p = ""
          THEN UNCHANGED lsProgress
          ELSE lsProgress' = [playerName |-> p, counts |-> counts]
  /\ UNCHANGED <<trackerVars, now, lsEnt, lsGames, lsTeamLogs, otherVars>>

closeUpgrade ==
  /\ IsTracker
  /\ showUpgrade
  /\ showUpgrade' = FALSE
  /\ UNCHANGED <<ent, games, counts, undoStack, playerName, selectedPlayer,
                 teamLogs, selectedTeamLogId, nextId>>
  /\ UNCHANGED <<now, trackerStore, otherVars>>

gamesForSelection(gs, id, sel) ==
  {g \in gamesForTeamLog(gs, id) : sel # "" /\ g.playerName = sel}

logGame_snapshotAfterReset(p) ==
  /\ nextId <= MaxGames
  /\ LET entry == [id |-> nextId, teamLogId |-> selectedTeamLogId,
                   playerName |-> p, counts |-> ZeroCounts]
     IN /\ games' = <<entry>> \o games
        /\ lsGames' = <<entry>> \o games
        /\ selectedPlayer' =
             syncSelectedPlayer(p, <<entry>> \o games, selectedTeamLogId,
                                games, selectedTeamLogId)
  /\ ent' = entAfterSave(ent, now)
  /\ lsEnt' = entAfterSave(ent, now)
  /\ lsProgress' = Absent
  /\ counts' = ZeroCounts
  /\ undoStack' = <<>>
  /\ nextId' = nextId + 1
  /\ UNCHANGED <<playerName, teamLogs, selectedTeamLogId, showUpgrade, lsTeamLogs>>

\* saveGame past its two checks: the entry is logged, the unit is spent, the
\* draft is cleared and the live counters are reset
logGame(p) ==
  /\ nextId <= MaxGames
  /\ LET entry == [id |-> nextId, teamLogId |-> selectedTeamLogId,
                   playerName |-> p, counts |-> counts]
     IN /\ games' = <<entry>> \o games
        /\ lsGames' = <<entry>> \o games
        /\ selectedPlayer' =
             syncSelectedPlayer(p, <<entry>> \o games, selectedTeamLogId,
                                games, selectedTeamLogId)
  /\ ent' = entAfterSave(ent, now)
  /\ lsEnt' = entAfterSave(ent, now)
  /\ lsProgress' = Absent
  /\ counts' = ZeroCounts
  /\ undoStack' = <<>>
  /\ nextId' = nextId + 1
  /\ UNCHANGED <<playerName, teamLogs, selectedTeamLogId, showUpgrade, lsTeamLogs>>

\* a saveGame that spends the unit before it asks the gate
saveGame_spendBeforeGate ==
  /\ IsTracker
  /\ LET p == Trim(playerName)
     IN IF p = ""
          THEN UNCHANGED <<trackerVars, trackerStore>>
          ELSE IF ~canFinishGame(ent)
            THEN /\ showUpgrade' = TRUE
                 /\ ent' = spendFinishCredit(ent, now)
                 /\ lsEnt' = spendFinishCredit(ent, now)
                 /\ UNCHANGED <<games, counts, undoStack, playerName,
                                selectedPlayer, teamLogs, selectedTeamLogId,
                                nextId, lsGames, lsTeamLogs, lsProgress>>
            ELSE logGame(p)
  /\ UNCHANGED <<now, otherVars>>

\* Game Over - Log Stats: the finalize
saveGame ==
  /\ IsTracker
  /\ LET p == Trim(playerName)
     IN IF p = ""
          THEN UNCHANGED <<trackerVars, trackerStore>>
          ELSE IF ~canFinishGame(ent)
            THEN /\ showUpgrade' = TRUE
                 /\ UNCHANGED <<ent, games, counts, undoStack, playerName,
                                selectedPlayer, teamLogs, selectedTeamLogId,
                                nextId, trackerStore>>
            ELSE logGame(p)
  /\ UNCHANGED <<now, otherVars>>

\* requestDeleteGame(id) on a listed game, then confirmDeleteGame
confirmDeleteGame(id) ==
  /\ IsTracker
  /\ id \in {g.id : g \in gamesForSelection(games, selectedTeamLogId, selectedPlayer)}
  /\ LET kept == removeGame(games, id)
     IN /\ games' = kept
        /\ lsGames' = kept
        /\ selectedPlayer' = syncSelectedPlayer(selectedPlayer, kept,
                               selectedTeamLogId, games, selectedTeamLogId)
  /\ UNCHANGED <<ent, counts, undoStack, playerName, teamLogs,
                 selectedTeamLogId, showUpgrade, nextId>>
  /\ UNCHANGED <<now, lsEnt, lsTeamLogs, lsProgress, otherVars>>

\* the page is loaded again: the component mounts over what was persisted
Reload ==
  /\ IsTracker
  /\ LET m == Mounted(lsEnt, lsGames, lsTeamLogs, lsProgress, now)
     IN /\ ent' = m.ent
        /\ lsEnt' = m.ent
        /\ games' = m.games
        /\ lsGames' = m.games
        /\ teamLogs' = m.teamLogs
        /\ lsTeamLogs' = m.teamLogs
        /\ selectedTeamLogId' = m.selectedTeamLogId
        /\ selectedPlayer' = m.selectedPlayer
        /\ counts' = m.counts
        /\ playerName' = m.playerName
  /\ undoStack' = <<>>
  /\ showUpgrade' = FALSE
  /\ UNCHANGED <<nextId, lsProgress, now, otherVars>>

NextTracker ==
  \/ Tick
  \/ \E label \in Taps : tap(label)
  \/ undoLastAction
  \/ resetLive
  \/ \E v \in TypedNames : setPlayerName(v)
  \/ \E p \in {""} \cup Players : setSelectedPlayer(p)
  \/ \E id \in 1..MaxTeamLogs : setSelectedTeamLogId(id)
  \/ addTeamLog
  \/ saveProgress
  \/ closeUpgrade
  \/ saveGame
  \/ \E id \in 1..MaxGames : confirmDeleteGame(id)
  \/ Reload

Spec == InitTracker /\ [][NextTracker]_vars

\* =====================================================================
\* GameTracker.tsx (first revision): the trial is counted per selected player
\* =====================================================================
IsPerPlayer == revision = "perPlayer"
GT_Players == {Names[i] : i \in 1..(MaxPlayers + 1)}
GT_TypedNames == {"", " "} \cup GT_Players
\* one of the LiveCounts keys; every stat button is inc(k)
LiveKeys == {"ftm"}
emptyCounts == [k \in LiveKeys |-> 0]
\* the plan values a checkout return can carry
GT_Plans == {"single_game", "season", "unlimited_annual"}

GT_FreshEnt(t) == [plan |-> "free", singleCredits |-> 0, updatedAt |-> t]

\* playerNames: the distinct names in the log
playerNames(gs) == {gs[i].playerName : i \in 1..Len(gs)}
\* gamesForSelected: games.filter(g => g.playerName === selectedPlayer.trim())
gamesForSelected(gs, sel) ==
  IF Trim(sel) = "" THEN {}
  ELSE {gs[i] : i \in {j \in 1..Len(gs) : gs[j].playerName = Trim(sel)}}
savedForPlayer(gs, sel) == Cardinality(gamesForSelected(gs, sel))

isUnlimited(e) == e.plan \in {"unlimited_monthly", "unlimited_annual"}
isSeason(e) == e.plan = "season"
hasSingleCredit(e) == e.singleCredits > 0
isPaid(e) == isUnlimited(e) \/ isSeason(e) \/ hasSingleCredit(e)

\* the paywall test of saveGame: TRUE when the save goes through
GT_gate(e, gs, sel) == isPaid(e) \/ savedForPlayer(gs, sel) < TRIAL_SAVES

applyPurchaseFromReturn(prev, plan, t) ==
  IF plan = "single_game"
    THEN [prev EXCEPT !.singleCredits = prev.singleCredits + 1, !.updatedAt = t]
  ELSE IF plan \in {"season", "unlimited_monthly", "unlimited_annual"}
    THEN [plan |-> plan, singleCredits |-> prev.singleCredits, updatedAt |-> t]
  ELSE prev

\* the default-selected-player effect; it runs when playerNames changed
defaultSelected(sel, names, names0, typed) ==
  IF names = names0 \/ sel # "" THEN sel
  ELSE IF names # {} THEN FirstSorted(names)
  ELSE IF Trim(typed) # "" THEN Trim(typed)
  ELSE sel

\* the component after its mount effects ran over the given storage
GT_Mounted(rawEnt, rawGames, t) ==
  [ent |-> IF rawEnt = Absent THEN GT_FreshEnt(t) ELSE rawEnt,
   games |-> rawGames,
   selectedPlayer |-> defaultSelected("", playerNames(rawGames), {}, "")]

InitPerPlayer ==
  /\ revision = "perPlayer"
  /\ now = 0
  /\ LET m == GT_Mounted(Absent, <<>>, 0)
     IN /\ ent = m.ent
        /\ lsEnt = m.ent
        /\ entAtStart = m.ent
        /\ undoStackRef = <<>>
        /\ games = m.games
        /\ lsGames = m.games
        /\ selectedPlayer = m.selectedPlayer
  /\ counts = emptyCounts
  /\ playerName = ""
  /\ teamLogs = <<>>
  /\ lsTeamLogs = <<>>
  /\ selectedTeamLogId = 0
  /\ lsProgress = Absent
  /\ undoStack = <<>>
  /\ showUpgrade = FALSE
  /\ nextId = 1
  /\ lsEntPage = Absent
  /\ lsRedeemed = <<>>
  /\ lsFlash = Absent
  /\ runs = [r \in Runs |-> IdleRun]
  /\ applied = [s \in 1..MaxSessions |-> 0]

\* what no GameTracker.tsx handler touches
GT_rest == <<undoStack, teamLogs, selectedTeamLogId, lsTeamLogs, lsProgress,
             now, otherVars>>

\* a stat button: inc(k)
GT_inc(k) ==
  /\ IsPerPlayer
  /\ counts[k] < MaxCount
  /\ counts' = [counts EXCEPT ![k] = Max0(counts[k] + 1)]
  /\ UNCHANGED <<ent, games, playerName, selectedPlayer, showUpgrade, nextId,
                 lsEnt, lsGames, GT_rest>>

GT_setPlayerName(v) ==
  /\ IsPerPlayer
  /\ playerName' = v
  /\ UNCHANGED <<ent, games, counts, selectedPlayer, showUpgrade, nextId,
                 lsEnt, lsGames, GT_rest>>

\* SELECT PLAYER: one of the listed players
GT_setSelectedPlayer(p) ==
  /\ IsPerPlayer
  /\ p \in playerNames(games)
  /\ selectedPlayer' = p
  /\ UNCHANGED <<ent, games, counts, playerName, showUpgrade, nextId,
                 lsEnt, lsGames, GT_rest>>

GT_closeUpgrade ==
  /\ IsPerPlayer
  /\ showUpgrade
  /\ showUpgrade' = FALSE
  /\ UNCHANGED <<ent, games, counts, playerName, selectedPlayer, nextId,
                 lsEnt, lsGames, GT_rest>>

\* the entitlement after a save that went through
GT_entAfterSave(e, t) ==
  IF ~isUnlimited(e) /\ ~isSeason(e) /\ e.singleCredits > 0
    THEN [e EXCEPT !.singleCredits = Max0(e.singleCredits - 1), !.updatedAt = t]
  ELSE e

GT_saveGame ==
  /\ IsPerPlayer
  /\ LET p == Trim(playerName)
     IN IF p = ""
          THEN UNCHANGED <<ent, games, counts, selectedPlayer, showUpgrade,
                           nextId, lsEnt, lsGames>>
          ELSE IF ~isPaid(ent) /\ savedForPlayer(games, selectedPlayer) >= TRIAL_SAVES
            THEN /\ showUpgrade' = TRUE
                 /\ UNCHANGED <<ent, games, counts, selectedPlayer, nextId,
                                lsEnt, lsGames>>
            ELSE /\ nextId <= MaxGames
                 /\ LET entry == [id |-> nextId, playerName |-> p, counts |-> counts]
                    IN /\ games' = <<entry>> \o games
                       /\ lsGames' = <<entry>> \o games
                 /\ selectedPlayer' = p
                 /\ ent' = GT_entAfterSave(ent, now)
                 /\ lsEnt' = GT_entAfterSave(ent, now)
                 /\ counts' = emptyCounts
                 /\ nextId' = nextId + 1
                 /\ UNCHANGED showUpgrade
  /\ UNCHANGED <<playerName, GT_rest>>

\* Delete on a card of the shown list
GT_deleteGame(id) ==
  /\ IsPerPlayer
  /\ id \in {g.id : g \in gamesForSelected(games, selectedPlayer)}
  /\ LET kept == removeGame(games, id)
     IN /\ games' = kept
        /\ lsGames' = kept
        /\ selectedPlayer' = defaultSelected(selectedPlayer, playerNames(kept),
                                             playerNames(games), playerName)
  /\ UNCHANGED <<ent, counts, playerName, showUpgrade, nextId, lsEnt, GT_rest>>

\* the page is loaded again, without return parameters
GT_Reload ==
  /\ IsPerPlayer
  /\ LET m == GT_Mounted(lsEnt, lsGames, now)
     IN /\ ent' = m.ent
        /\ lsEnt' = m.ent
        /\ games' = m.games
        /\ lsGames' = m.games
        /\ selectedPlayer' = m.selectedPlayer
  /\ counts' = emptyCounts
  /\ playerName' = ""
  /\ showUpgrade' = FALSE
  /\ UNCHANGED <<nextId, GT_rest>>

\* the page is loaded with ?success=1&plan=...: the purchase is applied
GT_returnFromCheckout(plan) ==
  /\ IsPerPlayer
  /\ plan = "single_game" => lsEnt.singleCredits < MaxCredits
  /\ LET m == GT_Mounted(lsEnt, lsGames, now)
         e == applyPurchaseFromReturn(m.ent, plan, now)
     IN /\ ent' = e
        /\ lsEnt' = e
        /\ games' = m.games
        /\ lsGames' = m.games
        /\ selectedPlayer' = m.selectedPlayer
  /\ counts' = emptyCounts
  /\ playerName' = ""
  /\ showUpgrade' = FALSE
  /\ UNCHANGED <<nextId, GT_rest>>

PerPlayerActions ==
  \/ \E k \in LiveKeys : GT_inc(k)
  \/ \E v \in GT_TypedNames : GT_setPlayerName(v)
  \/ \E p \in GT_Players : GT_setSelectedPlayer(p)
  \/ GT_closeUpgrade
  \/ GT_saveGame
  \/ \E id \in 1..MaxGames : GT_deleteGame(id)
  \/ GT_Reload
  \/ \E plan \in GT_Plans : GT_returnFromCheckout(plan)

NextPerPlayer == Tick \/ PerPlayerActions
SpecPerPlayer == InitPerPlayer /\ [][NextPerPlayer]_vars

\* both tracker revisions
InitTrackers == InitTracker \/ InitPerPlayer
NextTrackers == NextTracker \/ PerPlayerActions
SpecTrackers == InitTrackers /\ [][NextTrackers]_vars

\* =====================================================================
\* Properties of the entitlement gate
\* =====================================================================

\* C1: under the free plan with no redemption, starting from a free usage
\* count of 0, at most TRIAL_FREE_GAMES finalizes succeed; every later attempt
\* is refused: it logs no game, leaves the game store and the entitlement as
\* they were, and opens the paywall.
C1_TrialLimit ==
  /\ [](IsTracker /\ entAtStart.plan = "free" /\ entAtStart.freeSavesUsed = 0
          => nextId - 1 <= TRIAL_FREE_GAMES)
  /\ [][(/\ IsTracker
          /\ entAtStart.plan = "free" /\ entAtStart.freeSavesUsed = 0
          /\ nextId - 1 >= TRIAL_FREE_GAMES
          /\ saveGame)
         => /\ games' = games
            /\ lsGames' = lsGames
            /\ ent' = ent
            /\ lsEnt' = lsEnt
            /\ Trim(playerName) # "" => showUpgrade']_vars

\* the third finalize of a fresh trial was refused
C1_Witness ==
  /\ IsTracker
  /\ entAtStart.plan = "free" /\ entAtStart.freeSavesUsed = 0
  /\ nextId - 1 = TRIAL_FREE_GAMES
  /\ ent.freeSavesUsed = TRIAL_FREE_GAMES
  /\ showUpgrade

\* C2 (as stated): the gate is open exactly when the plan is unlimited and not
\* expired, or the plan is credits with a credit left, or the plan is free with
\* fewer than TRIAL_FREE_GAMES free saves used.  The annual plan is sold for
\* one year; it was bought no later than the record's updatedAt.
C2_GateMatchesPlanTerms ==
  IsTracker =>
    (canFinishGame(ent) <=>
       \/ ent.plan = "annual" /\ now < ent.updatedAt + YearTicks
       \/ ent.plan = "credits" /\ ent.creditsRemaining > 0
       \/ ent.plan = "free" /\ ent.freeSavesUsed < TRIAL_FREE_GAMES)

\* C3: a finalize that goes through changes the entitlement by exactly the
\* plan's unit: annual changes nothing, credits takes one credit (never below
\* 0), free adds one free save; it never changes both counters, and never
\* moves the gate's counter by more than one.
C3_OneUnitPerFinalize ==
  [][(IsTracker /\ Len(games') = Len(games) + 1)
       => /\ ent'.plan = ent.plan
          /\ ent.plan = "annual" => ent' = ent
          /\ ent.plan = "credits" =>
               /\ ent'.creditsRemaining = ent.creditsRemaining - 1
               /\ ent'.creditsRemaining >= 0
               /\ ent'.freeSavesUsed = ent.freeSavesUsed
          /\ ent.plan = "free" =>
               /\ ent'.freeSavesUsed = ent.freeSavesUsed + 1
               /\ ent'.creditsRemaining = ent.creditsRemaining
          /\ ~(/\ ent'.creditsRemaining # ent.creditsRemaining
               /\ ent'.freeSavesUsed # ent.freeSavesUsed)
          /\ lsEnt' = ent']_vars

\* a game was logged on a credit: the credit is gone, the free saves untouched
C3_Witness ==
  /\ IsTracker
  /\ entAtStart.plan = "credits"
  /\ Len(games) = 1
  /\ ent.creditsRemaining = entAtStart.creditsRemaining - 1
  /\ ent.freeSavesUsed = entAtStart.freeSavesUsed

\* C4: the gate is asked before any effect of a finalize.  An attempt the gate
\* refuses (or one without a player name) changes neither the entitlement nor
\* the log; an attempt it lets through appends exactly one game; and a unit is
\* only ever consumed in a step that had the gate open and appended a game.
C4_GateBeforeEffects ==
  /\ [][saveGame =>
          IF Trim(playerName) # "" /\ canFinishGame(ent)
            THEN Len(games') = Len(games) + 1 /\ Tail(games') = games
                 /\ lsGames' = games'
            ELSE UNCHANGED <<ent, lsEnt, games, lsGames>>]_vars
  /\ [][GT_saveGame =>
          IF Trim(playerName) # "" /\ GT_gate(ent, games, selectedPlayer)
            THEN Len(games') = Len(games) + 1 /\ Tail(games') = games
                 /\ lsGames' = games'
            ELSE UNCHANGED <<ent, lsEnt, games, lsGames>>]_vars
  /\ [][(IsTracker /\ (\/ ent'.freeSavesUsed > ent.freeSavesUsed
                        \/ ent'.creditsRemaining < ent.creditsRemaining))
         => /\ canFinishGame(ent)
            /\ Len(games') = Len(games) + 1 /\ Tail(games') = games]_vars
  /\ [][(IsPerPlayer /\ ent'.singleCredits < ent.singleCredits)
         => /\ GT_gate(ent, games, selectedPlayer)
            /\ Len(games') = Len(games) + 1 /\ Tail(games') = games]_vars

\* a refused attempt: the paywall is up, the trial is used up, and the log
\* holds exactly the games the trial paid for
C4_Witness ==
  /\ IsTracker
  /\ showUpgrade
  /\ ent.plan = "free"
  /\ ent.freeSavesUsed = TRIAL_FREE_GAMES
  /\ Len(games) = TRIAL_FREE_GAMES
  /\ lsGames = games

\* C5 (as stated): under the free plan, once the gate is closed it stays
\* closed across every step that is not a redemption (no step that leaves the
\* entitlement as it is reopens it): deleting a game or selecting another
\* player does not restore the trial.
C5_ClosedGateStaysClosed ==
  [][(/\ IsPerPlayer
      /\ ent.plan = "free"
      /\ ~GT_gate(ent, games, selectedPlayer)
      /\ ent' = ent)
     => ~GT_gate(ent', games', selectedPlayer')]_vars

\* =====================================================================
\* /upgrade/success (src/unnamed/part_003): the redemption flow
\* =====================================================================
IsSuccessPage == revision = "success"
Sessions == 1..MaxSessions
\* data.plan as the verification returns it for each checkout session: the
\* three tokens the page knows, and "single_game", which the checkout route
\* of src/src/app/api/checkout/route.ts stores in the session's metadata
SessionPlans == <<"single", "annual", "single_game", "pack_15">>
PlanOf(s) == SessionPlans[((s - 1) % Len(SessionPlans)) + 1]
\* the outcomes of the verification call
VerifyResults == {"error", "unpaid", "paid"}

\* a browser that has redeemed REDEEMED_CAP - 1 earlier annual sessions
PriorSessions == [i \in 1..(REDEEMED_CAP - 1) |-> 100 + REDEEMED_CAP - i]
PriorEnt == [plan |-> "annual", creditsRemaining |-> 0, freeSavesUsed |-> 0,
             updatedAt |-> 0, singleCreditsUsed |-> 0]

\* loadEnt(): the stored record in the new shape, else the fallback
loadEnt_staleFallback(raw, t) ==
  IF raw = Absent THEN [FreshEnt(t) EXCEPT !.freeSavesUsed = TRIAL_FREE_GAMES]
  ELSE raw

loadEnt(raw, t) ==
  IF raw = Absent THEN FreshEnt(t)
  ELSE IF /\ "plan" \in DOMAIN raw
          /\ "creditsRemaining" \in DOMAIN raw
          /\ "freeSavesUsed" \in DOMAIN raw
    THEN [plan |-> raw.plan, creditsRemaining |-> raw.creditsRemaining,
          freeSavesUsed |-> raw.freeSavesUsed,
          updatedAt |-> IF Field(raw, "updatedAt", 0) = 0 THEN t ELSE raw.updatedAt,
          singleCreditsUsed |-> Field(raw, "singleCreditsUsed", 0)]
  ELSE FreshEnt(t)

applyPlanToEnt_debit(e, plan, t) ==
  IF plan = "annual" THEN [e EXCEPT !.plan = "annual", !.updatedAt = t]
  ELSE [e EXCEPT !.plan = "credits", !.creditsRemaining = @ - 1, !.updatedAt = t]

applyPlanToEnt(e, plan, t) ==
  IF plan = "annual" THEN [e EXCEPT !.plan = "annual", !.updatedAt = t]
  ELSE [e EXCEPT !.plan = "credits",
                 !.creditsRemaining =
                    IF plan = "single" THEN @ + 1
                    ELSE IF plan = "pack_15" THEN @ + PACK_CREDITS
                    ELSE @,
                 !.updatedAt = t]

planLabel(plan) ==
  IF plan = "single" THEN "1 Game Save"
  ELSE IF plan = "pack_15" THEN "15-Game Pack"
  ELSE "1-Year Unlimited"
confirmedMsg(plan) ==
  IF planLabel(plan) = "1 Game Save" THEN "Purchase confirmed: 1 Game Save"
  ELSE IF planLabel(plan) = "15-Game Pack" THEN "Purchase confirmed: 15-Game Pack"
  ELSE "Purchase confirmed: 1-Year Unlimited"

includes_never(list, x) == FALSE
\* redeemed.includes(sessionId)
includes(list, x) == x \in SeqRange(list)

InitSuccessPage ==
  /\ revision = "success"
  /\ now = 0
  /\ \/ lsEntPage = Absent /\ lsRedeemed = <<>>
     \/ lsEntPage = PriorEnt /\ lsRedeemed = PriorSessions
  /\ lsFlash = Absent
  /\ runs = [r \in Runs |-> IdleRun]
  /\ applied = [s \in Sessions |-> 0]
  /\ ent = Absent
  /\ entAtStart = Absent
  /\ undoStackRef = <<>>
  /\ lsEnt = Absent
  /\ games = <<>>
  /\ lsGames = <<>>
  /\ counts = ZeroCounts
  /\ playerName = ""
  /\ selectedPlayer = ""
  /\ teamLogs = <<>>
  /\ lsTeamLogs = <<>>
  /\ selectedTeamLogId = 0
  /\ lsProgress = Absent
  /\ undoStack = <<>>
  /\ showUpgrade = FALSE
  /\ nextId = 1

\* a run is between two of its storage writes: the block after the awaits
\* runs to completion, so no other run of the page steps meanwhile
InBlock(r) == runs[r].pc \in {"saved", "marked"}
pageRest == <<revision, entAtStart, undoStackRef, trackerVars, trackerStore>>

\* the effect starts for ?session_id=s and sends the verification request
openPage(r, s) ==
  /\ IsSuccessPage
  /\ runs[r].pc = "idle"
  /\ \A q \in Runs : ~InBlock(q) /\ (runs[q].pc # "idle" => runs[q].sessionId = s)
  /\ runs' = [runs EXCEPT ![r] = [pc |-> "verifying", sessionId |-> s,
                                  msg |-> "Verifying payment..."]]
  /\ UNCHANGED <<now, pageStore, applied, pageRest>>

\* the verification answered: the code after the awaits, up to saveEnt
verified(r, res) ==
  /\ IsSuccessPage
  /\ runs[r].pc = "verifying"
  /\ \A q \in Runs : ~InBlock(q)
  /\ LET s == runs[r].sessionId
     IN IF res = "error"
          THEN /\ runs' = [runs EXCEPT ![r].pc = "done",
                                       ![r].msg = "Could not verify payment."]
               /\ UNCHANGED <<pageStore, applied>>
        ELSE IF res = "unpaid"
          THEN /\ runs' = [runs EXCEPT ![r].pc = "done",
                                       ![r].msg = "Payment not completed."]
               /\ UNCHANGED <<pageStore, applied>>
        ELSE IF includes(lsRedeemed, s)
          THEN /\ runs' = [runs EXCEPT ![r].pc = "done",
                                       ![r].msg = "Purchase already applied."]
               /\ UNCHANGED <<pageStore, applied>>
        ELSE /\ applied[s] < MaxApplied
             /\ Cardinality({x \in Sessions : applied[x] > 0} \cup {s}) <= MaxBought
             /\ lsEntPage' = applyPlanToEnt(loadEnt(lsEntPage, now), PlanOf(s), now)
             /\ applied' = [applied EXCEPT ![s] = @ + 1]
             /\ runs' = [runs EXCEPT ![r].pc = "saved"]
             /\ UNCHANGED <<lsRedeemed, lsFlash>>
  /\ UNCHANGED <<now, pageRest>>

\* localStorage.setItem(redeemedKey, [sessionId, ...redeemed].slice(0, 50))
markRedeemed(r) ==
  /\ IsSuccessPage
  /\ runs[r].pc = "saved"
  /\ lsRedeemed' = Take(<<runs[r].sessionId>> \o lsRedeemed, REDEEMED_CAP)
  /\ runs' = [runs EXCEPT ![r].pc = "marked"]
  /\ UNCHANGED <<now, lsEntPage, lsFlash, applied, pageRest>>

\* the flash record and the confirmation message
writeFlash(r) ==
  /\ IsSuccessPage
  /\ runs[r].pc = "marked"
  /\ lsFlash' = [plan |-> PlanOf(runs[r].sessionId), at |-> now]
  /\ runs' = [runs EXCEPT ![r].pc = "done",
                          ![r].msg = confirmedMsg(PlanOf(runs[r].sessionId))]
  /\ UNCHANGED <<now, lsEntPage, lsRedeemed, applied, pageRest>>

\* the page is reloaded or closed: every run of the page ends where it is
reloadPage ==
  /\ IsSuccessPage
  /\ \E r \in Runs : runs[r].pc # "idle"
  /\ runs' = [r \in Runs |-> IdleRun]
  /\ UNCHANGED <<now, pageStore, applied, pageRest>>

NextSuccessPage ==
  \/ Tick
  \/ \E r \in Runs, s \in Sessions : openPage(r, s)
  \/ \E r \in Runs, res \in VerifyResults : verified(r, res)
  \/ \E r \in Runs : markRedeemed(r)
  \/ \E r \in Runs : writeFlash(r)
  \/ reloadPage

SpecSuccessPage == InitSuccessPage /\ [][NextSuccessPage]_vars

\* =====================================================================
\* Properties of the redemption flow
\* =====================================================================

\* C6: redemption is idempotent per transaction id: a paid verification for a
\* session id that is in the stored redeemed list changes neither the stored
\* entitlement nor the list (and says so); and a redemption that completes
\* leaves its id at the head of the list, so that the same redemption done
\* again is that case.
C6_RedeemIdempotent ==
  /\ [][\A r \in Runs :
          (verified(r, "paid") /\ runs[r].sessionId \in SeqRange(lsRedeemed))
          => /\ UNCHANGED <<lsEntPage, lsRedeemed, lsFlash, applied>>
             /\ runs'[r].msg = "Purchase already applied."]_vars
  /\ [][\A r \in Runs :
          markRedeemed(r) => Head(lsRedeemed') = runs[r].sessionId]_vars

\* a session was redeemed once, and a later run for it was turned away
C6_Witness ==
  /\ IsSuccessPage
  /\ \E r \in Runs :
       /\ runs[r].pc = "done"
       /\ runs[r].msg = "Purchase already applied."
       /\ applied[runs[r].sessionId] = 1
       /\ runs[r].sessionId \in SeqRange(lsRedeemed)

\* C7 (as stated): however often the flow runs for one transaction id, in any
\* interleaving of its verification, and with the page reloaded between any
\* two storage writes, the session's plan is applied to the stored
\* entitlement at most once.
C7_AppliedAtMostOnce ==
  IsSuccessPage => \A s \in Sessions : applied[s] <= 1

\* C8 (as stated): the redeemed set only grows: a step never removes an id
\* from the stored list.
C8_RedeemedOnlyGrows ==
  [][IsSuccessPage => SeqRange(lsRedeemed) \subseteq SeqRange(lsRedeemed')]_vars

\* C9 (as stated): a fresh redemption applies exactly the plan's delta: single
\* adds one credit and sets the plan to credits, the 15 pack adds 15 credits
\* and sets the plan to credits, the annual product sets the plan to annual
\* and stores an expiry timestamp with it; updatedAt is refreshed; and the
\* session id is added to the redeemed list.
C9_FreshRedemptionDelta ==
  /\ [][\A r \in Runs :
          (/\ verified(r, "paid")
           /\ runs[r].sessionId \notin SeqRange(lsRedeemed)
           /\ PlanOf(runs[r].sessionId) \in {"single", "pack_15", "annual"})
          => LET e == loadEnt(lsEntPage, now)
                 plan == PlanOf(runs[r].sessionId)
             IN /\ plan = "single" =>
                     /\ lsEntPage'.plan = "credits"
                     /\ lsEntPage'.creditsRemaining = e.creditsRemaining + 1
                /\ plan = "pack_15" =>
                     /\ lsEntPage'.plan = "credits"
                     /\ lsEntPage'.creditsRemaining = e.creditsRemaining + PACK_CREDITS
                /\ plan = "annual" =>
                     /\ lsEntPage'.plan = "annual"
                     /\ lsEntPage'.creditsRemaining = e.creditsRemaining
                     /\ DOMAIN lsEntPage' \ DOMAIN FreshEnt(0) # {}
                /\ lsEntPage'.freeSavesUsed = e.freeSavesUsed
                /\ lsEntPage'.updatedAt = now]_vars
  /\ [][\A r \in Runs :
          markRedeemed(r) => runs[r].sessionId \in SeqRange(lsRedeemed')]_vars

\* C10 (as stated): a paid verification whose plan is none of the recognized
\* tokens ends in an error message and changes neither the stored entitlement
\* nor the redeemed list.
C10_UnknownPlanRejected ==
  [][\A r \in Runs :
       (/\ IsSuccessPage
        /\ runs[r].pc \in {"verifying", "saved", "marked"}
        /\ PlanOf(runs[r].sessionId) \notin {"single", "pack_15", "annual"}
        /\ runs[r].sessionId \notin SeqRange(lsRedeemed)
        /\ runs'[r] # runs[r] /\ runs'[r].pc # "idle")
       => /\ UNCHANGED <<lsEntPage, lsRedeemed>>
          /\ runs'[r].pc = "done"
          /\ runs'[r].msg \in {"Could not verify payment.",
                                "Payment not completed."}]_vars

\* C11 (as stated): the stored plan tag changes only by redemption and only
\* along free -> credits, credits -> credits, and free or credits -> annual;
\* once the plan is annual no step changes it to free or credits.  (A store
\* without a record is the free plan.)
C11_PlanOnlyUpgrades ==
  /\ [][IsSuccessPage =>
          LET a == IF lsEntPage = Absent THEN "free" ELSE lsEntPage.plan
              b == IF lsEntPage' = Absent THEN "free" ELSE lsEntPage'.plan
          IN \/ a = b
             \/ a = "free" /\ b \in {"credits", "annual"}
             \/ a = "credits" /\ b = "annual"]_vars
  /\ [][IsTracker => ent'.plan = ent.plan]_vars

\* =====================================================================
\* The purchase path: tracker -> checkout -> /upgrade/success -> tracker
\* =====================================================================
\* the products of the upgrade modal
CheckoutPlans == {"single", "pack_15", "annual"}
\* what becomes of a checkout: the request fails (alert), the user leaves the
\* gateway without paying and opens the tracker again, or the gateway sends
\* the browser to success_url with the session's id
CheckoutResults == {"failed", "abandoned", "redirected"}

\* the tracker component mounts over what is stored
MountTracker ==
  /\ LET m == Mounted(lsEnt, lsGames, lsTeamLogs, lsProgress, now)
     IN /\ ent' = m.ent
        /\ lsEnt' = m.ent
        /\ games' = m.games
        /\ lsGames' = m.games
        /\ teamLogs' = m.teamLogs
        /\ lsTeamLogs' = m.teamLogs
        /\ selectedTeamLogId' = m.selectedTeamLogId
        /\ selectedPlayer' = m.selectedPlayer
        /\ counts' = m.counts
        /\ playerName' = m.playerName
  /\ undoStack' = <<>>
  /\ showUpgrade' = FALSE
  /\ UNCHANGED <<nextId, lsProgress>>

\* a checkout that credits the purchase as soon as it is started
startCheckout_grantsCredit(plan, res) ==
  /\ IsTracker
  /\ showUpgrade
  /\ ent' = [ent EXCEPT !.plan = "credits", !.creditsRemaining = @ + 1]
  /\ lsEnt' = [ent EXCEPT !.plan = "credits", !.creditsRemaining = @ + 1]
  /\ UNCHANGED <<games, counts, undoStack, playerName, selectedPlayer, teamLogs,
                 selectedTeamLogId, showUpgrade, nextId, lsGames, lsTeamLogs,
                 lsProgress, now, otherVars>>

\* a product button of the upgrade modal
startCheckout(plan, res) ==
  /\ IsTracker
  /\ showUpgrade
  /\ IF res = "failed"
       THEN UNCHANGED <<trackerVars, trackerStore, revision, runs>>
     ELSE IF res = "abandoned"
       THEN MountTracker /\ UNCHANGED <<revision, runs>>
     ELSE /\ \E s \in Sessions :
               /\ PlanOf(s) = plan
               /\ applied[s] = 0 /\ ~includes(lsRedeemed, s)
               /\ runs' = [runs EXCEPT ![1] = [pc |-> "verifying", sessionId |-> s,
                                               msg |-> "Verifying payment..."]]
          /\ revision' = "success"
          /\ MountTracker
  /\ UNCHANGED <<now, pageStore, applied, entAtStart, undoStackRef>>

\* router.replace("/") once a run has ended: the tracker is loaded again
returnToTracker ==
  /\ IsSuccessPage
  /\ \E r \in Runs : runs[r].pc = "done"
  /\ \A r \in Runs : ~InBlock(r)
  /\ revision' = "tracker"
  /\ runs' = [r \in Runs |-> IdleRun]
  /\ MountTracker
  /\ UNCHANGED <<now, pageStore, applied, entAtStart, undoStackRef>>

NextPurchase ==
  \/ Tick
  \/ \E v \in TypedNames : setPlayerName(v)
  \/ saveGame
  \/ closeUpgrade
  \/ \E plan \in CheckoutPlans, res \in CheckoutResults : startCheckout(plan, res)
  \/ \E r \in Runs, res \in VerifyResults : verified(r, res)
  \/ \E r \in Runs : markRedeemed(r)
  \/ \E r \in Runs : writeFlash(r)
  \/ returnToTracker

SpecPurchase == InitTracker /\ [][NextPurchase]_vars

\* C12: starting a checkout (whether the request fails, the user abandons the
\* gateway, or the gateway redirects to the success page), a verification
\* that fails and a verification that reports the payment as not paid leave
\* the entitlement (the tracker's and the one the success page stores) and the
\* redeemed list unchanged.
C12_NoPurchaseNoChange ==
  /\ [][(\E plan \in CheckoutPlans, res \in CheckoutResults :
            startCheckout(plan, res))
         => /\ ent' = ent
            /\ UNCHANGED <<lsEnt, lsEntPage, lsRedeemed, applied>>]_vars
  /\ [][(\E r \in Runs : verified(r, "error") \/ verified(r, "unpaid"))
         => UNCHANGED <<ent, lsEnt, lsEntPage, lsRedeemed, applied>>]_vars

\* a checkout was started and its verification reported the payment as not
\* paid: nothing was applied
C12_Witness ==
  /\ IsSuccessPage
  /\ entAtStart.plan = "free"
  /\ \E r \in Runs : runs[r].pc = "done" /\ runs[r].msg = "Payment not completed."
  /\ lsEnt = ent
  /\ ent.freeSavesUsed = TRIAL_FREE_GAMES
  /\ lsEntPage = Absent
  /\ lsRedeemed = <<>>

\* C13 (as stated): a completed redemption reaches the finalize gate: when the
\* tracker is loaded again after a fresh session for a credit product was
\* redeemed, its entitlement holds the added credits and the gate is open,
\* even if the free trial was used up.
C13_RedemptionReachesGate ==
  [][(/\ returnToTracker
      /\ \E r \in Runs :
           /\ runs[r].pc = "done"
           /\ PlanOf(runs[r].sessionId) \in {"single", "pack_15"}
           /\ runs[r].msg = confirmedMsg(PlanOf(runs[r].sessionId)))
     => /\ ent'.plan = "credits"
        /\ ent'.creditsRemaining > ent.creditsRemaining
        /\ canFinishGame(ent')]_vars

\* =====================================================================
\* src/unnamed/part_002 (second component): counters with a history of
\* {kind: inc | dec | reset} entries
\* =====================================================================
IsHistory == revision = "history"
\* two of the LiveCounts keys
H_Keys == {"madeFT", "to"}
H_emptyCounts == [k \in H_Keys |-> 0]

clampNonNeg_none(n) == n
clampNonNeg(n) == IF n < 0 THEN 0 ELSE n

\* a history entry; `before` is history, the live counts when it was recorded
H_Action(kind, key, c) == [kind |-> kind, key |-> key, before |-> c]
Last(h) == h[Len(h)]
Front(h) == SubSeq(h, 1, Len(h) - 1)

\* the counts after undo() took the entry `last` back
H_undone(last, c) ==
  IF last.kind = "inc" THEN [c EXCEPT ![last.key] = clampNonNeg(c[last.key] - 1)]
  ELSE IF last.kind = "dec" THEN [c EXCEPT ![last.key] = c[last.key] + 1]
  ELSE c

\* names[0] of the sorted, distinct player names of the log
H_firstName(gs) == FirstSorted({gs[i].playerName : i \in 1..Len(gs)})

InitHistory ==
  /\ revision = "history"
  /\ now = 0
  /\ counts = H_emptyCounts
  /\ undoStack = <<>>
  /\ games = <<>>
  /\ lsGames = <<>>
  /\ playerName = ""
  /\ selectedPlayer = ""
  /\ nextId = 1
  /\ ent = Absent
  /\ entAtStart = Absent
  /\ undoStackRef = <<>>
  /\ lsEnt = Absent
  /\ teamLogs = <<>>
  /\ lsTeamLogs = <<>>
  /\ selectedTeamLogId = 0
  /\ lsProgress = Absent
  /\ showUpgrade = FALSE
  /\ lsEntPage = Absent
  /\ lsRedeemed = <<>>
  /\ lsFlash = Absent
  /\ runs = [r \in Runs |-> IdleRun]
  /\ applied = [s \in 1..MaxSessions |-> 0]

\* what no handler of this component touches
H_rest == <<ent, teamLogs, selectedTeamLogId, showUpgrade, lsEnt, lsTeamLogs,
            lsProgress, now, otherVars>>

\* a stat button
H_inc(key) ==
  /\ IsHistory
  /\ Len(undoStack) < MaxEntries
  /\ counts[key] < MaxLive
  /\ counts' = [counts EXCEPT ![key] = counts[key] + 1]
  /\ undoStack' = Append(undoStack, H_Action("inc", key, counts))
  /\ UNCHANGED <<games, lsGames, playerName, selectedPlayer, nextId, H_rest>>

H_dec(key) ==
  /\ IsHistory
  /\ Len(undoStack) < MaxEntries
  /\ counts' = [counts EXCEPT ![key] = clampNonNeg(counts[key] - 1)]
  /\ undoStack' = Append(undoStack, H_Action("dec", key, counts))
  /\ UNCHANGED <<games, lsGames, playerName, selectedPlayer, nextId, H_rest>>

\* confirmUndo, then undo
H_undo ==
  /\ IsHistory
  /\ IF undoStack = <<>>
       THEN UNCHANGED <<counts, undoStack>>
       ELSE /\ \A k \in H_Keys : H_undone(Last(undoStack), counts)[k] <= MaxLive
            /\ counts' = H_undone(Last(undoStack), counts)
            /\ undoStack' = Front(undoStack)
  /\ UNCHANGED <<games, lsGames, playerName, selectedPlayer, nextId, H_rest>>

\* confirmReset, then resetLive
H_resetLive ==
  /\ IsHistory
  /\ (\E k \in H_Keys : counts[k] > 0) \/ undoStack # <<>>
  /\ Len(undoStack) < MaxEntries
  /\ counts' = H_emptyCounts
  /\ undoStack' = Append(undoStack, H_Action("reset", "", counts))
  /\ UNCHANGED <<games, lsGames, playerName, selectedPlayer, nextId, H_rest>>

H_setPlayerName(v) ==
  /\ IsHistory
  /\ playerName' = v
  /\ UNCHANGED <<counts, undoStack, games, lsGames, selectedPlayer, nextId, H_rest>>

\* saveGame: the entry is logged, then resetLive()
H_saveGame ==
  /\ IsHistory
  /\ LET p == Trim(playerName)
     IN IF p = ""
          THEN UNCHANGED <<counts, undoStack, games, lsGames, selectedPlayer, nextId>>
          ELSE /\ nextId <= MaxSaved
               /\ Len(undoStack) < MaxEntries
               /\ LET entry == [id |-> nextId, createdAt |-> now, playerName |-> p,
                                counts |-> counts]
                  IN /\ games' = <<entry>> \o games
                     /\ lsGames' = <<entry>> \o games
               /\ selectedPlayer' = p
               /\ counts' = H_emptyCounts
               /\ undoStack' = Append(undoStack, H_Action("reset", "", counts))
               /\ nextId' = nextId + 1
  /\ UNCHANGED <<playerName, H_rest>>

\* Delete on a card of the shown list
H_deleteGame(id) ==
  /\ IsHistory
  /\ id \in {g.id : g \in gamesForSelected(games, selectedPlayer)}
  /\ LET kept == removeGame(games, id)
     IN /\ games' = kept
        /\ lsGames' = kept
        /\ selectedPlayer' =
             IF selectedPlayer # "" THEN selectedPlayer
             ELSE IF Trim(playerName) # "" THEN Trim(playerName)
             ELSE H_firstName(kept)
  /\ UNCHANGED <<counts, undoStack, playerName, nextId, H_rest>>

\* the page is loaded again
H_Reload ==
  /\ IsHistory
  /\ games' = lsGames
  /\ counts' = H_emptyCounts
  /\ undoStack' = <<>>
  /\ playerName' = ""
  /\ selectedPlayer' = H_firstName(lsGames)
  /\ UNCHANGED <<lsGames, nextId, H_rest>>

\* what the buttons of the page reach (no button calls dec)
HistoryActions ==
  \/ \E k \in H_Keys : H_inc(k)
  \/ H_undo
  \/ H_resetLive
  \/ \E v \in TypedNames : H_setPlayerName(v)
  \/ H_saveGame
  \/ \E id \in 1..MaxSaved : H_deleteGame(id)
  \/ H_Reload

NextHistory == HistoryActions
SpecHistory == InitHistory /\ [][NextHistory]_vars

\* =====================================================================
\* src/unnamed/part_000 (first component): counters with a history of
\* {kind, key, by} actions
\* =====================================================================
IsActions == revision = "actions"
\* three of the Counts keys
A_Keys == {"pts", "fgMade", "fgAtt"}
A_emptyCounts == [k \in A_Keys |-> 0]
\* the inc() calls of two of the buttons, in the order of the handler
A_Buttons == {"Made 2PT", "Missed 2PT"}
A_calls(button) ==
  IF button = "Made 2PT"
    THEN <<[key |-> "pts", by |-> 2], [key |-> "fgMade", by |-> 1],
           [key |-> "fgAtt", by |-> 1]>>
  ELSE <<[key |-> "fgAtt", by |-> 1]>>

\* applyDelta(key, by)
applyDelta(c, key, by) == [c EXCEPT ![key] = clampNonNeg(c[key] + by)]

\* a recorded action; `before` is history, the live counts when it was recorded
A_Action(kind, key, by, c) == [kind |-> kind, key |-> key, by |-> by, before |-> c]

\* the counts after tap(action) passed the debounce
A_tapped(action, c) ==
  IF action.kind = "reset" THEN action.prevCounts
  ELSE IF action.kind = "inc" THEN applyDelta(c, action.key, action.by)
  ELSE applyDelta(c, action.key, 0 - action.by)

undoOne(action, c) ==
  IF action.kind = "reset" THEN action.prevCounts
  ELSE IF action.kind = "inc" THEN applyDelta(c, action.key, 0 - action.by)
  ELSE applyDelta(c, action.key, action.by)

InitActions ==
  /\ revision = "actions"
  /\ now = 0
  /\ counts = A_emptyCounts
  /\ undoStack = <<>>
  /\ games = <<>>
  /\ lsGames = <<>>
  /\ playerName = ""
  /\ selectedPlayer = ""
  /\ nextId = 1
  /\ ent = Absent
  /\ entAtStart = Absent
  /\ undoStackRef = <<>>
  /\ lsEnt = Absent
  /\ teamLogs = <<>>
  /\ lsTeamLogs = <<>>
  /\ selectedTeamLogId = 0
  /\ lsProgress = Absent
  /\ showUpgrade = FALSE
  /\ lsEntPage = Absent
  /\ lsRedeemed = <<>>
  /\ lsFlash = Absent
  /\ runs = [r \in Runs |-> IdleRun]
  /\ applied = [s \in 1..MaxSessions |-> 0]

A_rest == <<ent, teamLogs, selectedTeamLogId, showUpgrade, lsEnt, lsTeamLogs,
            lsProgress, now, otherVars>>

\* a stat button: its handler calls inc() for each of its counters; tap() drops
\* a call made less than 35 ms after the last one that passed, so when the
\* click itself is late enough only the first call of the handler passes
A_click(button, late) ==
  /\ IsActions
  /\ Len(undoStack) < MaxEntries
  /\ IF late
       THEN LET call == A_calls(button)[1]
                action == A_Action("inc", call.key, call.by, counts)
            IN /\ counts[call.key] + call.by <= MaxLive
               /\ counts' = A_tapped(action, counts)
               /\ undoStack' = Append(undoStack, action)
       ELSE UNCHANGED <<counts, undoStack>>
  /\ UNCHANGED <<games, lsGames, playerName, selectedPlayer, nextId, A_rest>>

\* tap({kind: "dec", key, by})
A_dec(key, by) ==
  /\ IsActions
  /\ Len(undoStack) < MaxEntries
  /\ LET action == A_Action("dec", key, by, counts)
     IN /\ counts' = A_tapped(action, counts)
        /\ undoStack' = Append(undoStack, action)
  /\ UNCHANGED <<games, lsGames, playerName, selectedPlayer, nextId, A_rest>>

\* confirmUndo, then undo
A_undo ==
  /\ IsActions
  /\ IF undoStack = <<>>
       THEN UNCHANGED <<counts, undoStack>>
       ELSE /\ \A k \in A_Keys : undoOne(Last(undoStack), counts)[k] <= MaxLive
            /\ counts' = undoOne(Last(undoStack), counts)
            /\ undoStack' = Front(undoStack)
  /\ UNCHANGED <<games, lsGames, playerName, selectedPlayer, nextId, A_rest>>

\* confirmReset, then resetLive
A_resetLive ==
  /\ IsActions
  /\ (\E k \in A_Keys : counts[k] > 0) \/ undoStack # <<>>
  /\ counts' = A_emptyCounts
  /\ undoStack' = <<>>
  /\ UNCHANGED <<games, lsGames, playerName, selectedPlayer, nextId, A_rest>>

A_setPlayerName(v) ==
  /\ IsActions
  /\ playerName' = v
  /\ UNCHANGED <<counts, undoStack, games, lsGames, selectedPlayer, nextId, A_rest>>

A_saveGame ==
  /\ IsActions
  /\ LET p == Trim(playerName)
     IN IF p = ""
          THEN UNCHANGED <<counts, undoStack, games, lsGames, selectedPlayer, nextId>>
          ELSE /\ nextId <= MaxSaved
               /\ LET entry == [id |-> nextId, playerName |-> p, counts |-> counts]
                  IN /\ games' = <<entry>> \o games
                     /\ lsGames' = <<entry>> \o games
               /\ selectedPlayer' = p
               /\ counts' = A_emptyCounts
               /\ undoStack' = <<>>
               /\ nextId' = nextId + 1
  /\ UNCHANGED <<playerName, A_rest>>

A_deleteGame(id) ==
  /\ IsActions
  /\ id \in {games[i].id : i \in 1..Len(games)}
  /\ LET kept == removeGame(games, id)
     IN /\ games' = kept
        /\ lsGames' = kept
  /\ UNCHANGED <<counts, undoStack, playerName, selectedPlayer, nextId, A_rest>>

A_Reload ==
  /\ IsActions
  /\ games' = lsGames
  /\ counts' = A_emptyCounts
  /\ undoStack' = <<>>
  /\ playerName' = ""
  /\ selectedPlayer' = ""
  /\ UNCHANGED <<lsGames, nextId, A_rest>>

\* the counters the two buttons reach
A_DecKeys == {"pts", "fgAtt"}

\* what the buttons of the page reach (no button records a dec)
ActionsActions ==
  \/ \E b \in A_Buttons, late \in BOOLEAN : A_click(b, late)
  \/ A_undo
  \/ A_resetLive
  \/ \E v \in TypedNames : A_setPlayerName(v)
  \/ A_saveGame
  \/ \E id \in 1..MaxSaved : A_deleteGame(id)
  \/ A_Reload

\* the counter engines of the three components, with the dec operations that
\* part_002 and part_000 define
InitEngines == InitTracker \/ InitHistory \/ InitActions
NextEngines ==
  \/ NextTracker
  \/ HistoryActions
  \/ \E k \in H_Keys : H_dec(k)
  \/ ActionsActions
  \/ \E k \in A_DecKeys, by \in 1..2 : A_dec(k, by)
SpecEngines == InitEngines /\ [][NextEngines]_vars

\* ---------------------------------------------------------------------
\* C14: every counter is at least 0 in every state any sequence of
\* increments, decrements, undos and resets reaches, and a decrement recorded
\* on a counter that was 0 left every counter as it was (that counter still 0).
\* ---------------------------------------------------------------------
C14_CountersNonNegative ==
  /\ [](\A k \in DOMAIN counts : counts[k] >= 0)
  /\ [][(IsHistory \/ IsActions)
          /\ Len(undoStack') = Len(undoStack) + 1
          /\ Last(undoStack').kind = "dec"
          /\ counts[Last(undoStack').key] = 0
        => counts' = counts]_vars

\* a decrement was just recorded on a counter at 0 while another counter is not 0
C14_Witness ==
  /\ IsHistory \/ IsActions
  /\ undoStack # <<>>
  /\ Last(undoStack).kind = "dec"
  /\ Last(undoStack).before[Last(undoStack).key] = 0
  /\ counts = Last(undoStack).before
  /\ \E k \in DOMAIN counts : counts[k] > 0

\* ---------------------------------------------------------------------
\* C15: for every Counts value C and every single recorded mutation M (an
\* increment or a decrement, a decrement at 0 included), applying M to C and
\* undoing it straight away yields exactly C.
\* ---------------------------------------------------------------------
C15_UndoRestoresExactly ==
  [][((H_undo \/ A_undo)
       /\ undoStack # <<>>
       /\ Last(undoStack).kind \in {"inc", "dec"}
       /\ (LET M == Last(undoStack)
               C == M.before
           IN counts =
                IF IsActions THEN A_tapped(M, C)
                ELSE IF M.kind = "inc" THEN [C EXCEPT ![M.key] = C[M.key] + 1]
                ELSE [C EXCEPT ![M.key] = clampNonNeg(C[M.key] - 1)]))
     => counts' = Last(undoStack).before]_vars

\* ---------------------------------------------------------------------
\* C16: undo is strictly last-in first-out: each undo takes back the most
\* recently recorded entry, removes exactly that entry, and returns the counts
\* to what they were when it was recorded, so N undos after N recorded
\* mutations return the counts to their value before the sequence.
\* ---------------------------------------------------------------------
C16_UndoIsLifo ==
  [][/\ undoLastAction /\ undoStack # <<>> =>
          counts' = Head(undoStack).before /\ undoStack' = Tail(undoStack)
     /\ (H_undo \/ A_undo) /\ undoStack # <<>> =>
          counts' = Last(undoStack).before /\ undoStack' = Front(undoStack)]_vars

\* ---------------------------------------------------------------------
\* C18: when the most recent history entry is a reset, undo restores the
\* counts to the values they had immediately before that reset.
\* ---------------------------------------------------------------------
C18_UndoRestoresReset ==
  [][(H_undo \/ A_undo) /\ undoStack # <<>> /\ Last(undoStack).kind = "reset"
     => counts' = Last(undoStack).before]_vars

\* ---------------------------------------------------------------------
\* C17: undo on an empty history is a no-op: it changes neither the counts
\* nor the history (nor anything else), and raises no error.
\* ---------------------------------------------------------------------
C17_UndoOnEmptyIsNoOp ==
  [][(undoLastAction \/ H_undo \/ A_undo) /\ undoStack = <<>> => UNCHANGED vars]_vars

\* the history is empty while a counter is not 0
C17_Witness ==
  /\ IsTracker \/ IsHistory \/ IsActions
  /\ undoStack = <<>>
  /\ \E k \in DOMAIN counts : counts[k] > 0
  /\ ENABLED (undoLastAction \/ H_undo \/ A_undo)

\* ---------------------------------------------------------------------
\* C19: after a successful finalize (the log grew by one record) and after an
\* explicit reset of the live counts the undo history is empty, so that no
\* later undo can reach an entry recorded before it.
\* ---------------------------------------------------------------------
C19_HistoryClearedOnResetAndFinalize ==
  [][resetLive \/ H_resetLive \/ A_resetLive \/ Len(games') = Len(games) + 1
     => undoStack' = <<>>]_vars

\* ---------------------------------------------------------------------
\* C20: a finalize attempt with an empty or whitespace-only player name is
\* blocked and mutates nothing: the record store, the entitlement, the live
\* counts and the undo history are unchanged (and so is everything else).
\* ---------------------------------------------------------------------
C20_BlankNameBlocksFinalize ==
  [][(saveGame \/ GT_saveGame) /\ playerName \in {"", " "} => UNCHANGED vars]_vars

\* a whitespace-only name is typed while the gate is open, counters are not 0
\* and the undo history is not empty
C20_Witness ==
  /\ IsTracker
  /\ playerName = " "
  /\ canFinishGame(ent)
  /\ \E k \in Keys : counts[k] > 0
  /\ undoStack # <<>>
  /\ ENABLED saveGame

\* ---------------------------------------------------------------------
\* C21: a draft save (Save Progress) creates no game record and changes no
\* entitlement: the record collection, in memory and stored, and the
\* entitlement (creditsRemaining, freeUsageCount and the rest), in memory and
\* stored, are the same before and after every draft save.
\* ---------------------------------------------------------------------
C21_DraftSaveIsEntitlementFree ==
  [][saveProgress => UNCHANGED <<games, lsGames, ent, lsEnt>>]_vars

\* a draft of non-zero live counts is stored while the log holds a record
C21_Witness ==
  /\ IsTracker
  /\ lsProgress # Absent
  /\ lsProgress.counts = counts
  /\ \E k \in Keys : counts[k] > 0
  /\ Len(games) > 0

\* the record stores of src/unnamed/part_001 and src/unnamed/part_000
InitStores == InitTracker \/ InitActions
NextStores == NextTracker \/ ActionsActions
SpecStores == InitStores /\ [][NextStores]_vars

\* ---------------------------------------------------------------------
\* C22: removing by identifier deletes exactly the record with that identifier
\* and leaves every other record, and their order, as they were; when no
\* record has the identifier the collection is unchanged; removing the same
\* identifier a second time changes nothing more.
\* ---------------------------------------------------------------------
C22_RemoveExactlyOne ==
  /\ [](\A id \in 1..(MaxGames + 1) :
          /\ (\A i \in 1..Len(games) : games[i].id # id) => removeGame(games, id) = games
          /\ removeGame(removeGame(games, id), id) = removeGame(games, id))
  /\ [][\A id \in {games[i].id : i \in 1..Len(games)} :
          confirmDeleteGame(id) \/ A_deleteGame(id) =>
            /\ lsGames' = games'
            /\ \E i \in 1..Len(games) :
                 /\ games[i].id = id
                 /\ games' = SubSeq(games, 1, i - 1) \o SubSeq(games, i + 1, Len(games))]_vars

\* the middle one of three records was removed
C22_Witness ==
  /\ IsTracker
  /\ Len(games) = 2
  /\ games[1].id = 3
  /\ games[2].id = 1

\* =====================================================================
\* The record lists: what is shown for a selection
\* =====================================================================
\* the players of the record lists
LogPlayers == {Names[1], Names[2]}

\* src/unnamed/part_001: gamesForTeamLog, then gamesForSelection, as the arrays
\* the two filters return
gamesForSelectionList_anyTeam(gs, id, sel) ==
  IF id = 0 \/ sel = "" THEN <<>>
  ELSE FilterSeq(gs, {g \in SeqRange(gs) : g.playerName = sel})
gamesForSelectionList(gs, id, sel) ==
  IF id = 0 \/ sel = "" THEN <<>>
  ELSE FilterSeq(FilterSeq(gs, {g \in SeqRange(gs) : g.teamLogId = id}),
                 {g \in SeqRange(gs) : g.playerName = sel})

\* src/unnamed/part_002: Array.prototype.sort((a, b) => b.createdAt - a.createdAt),
\* a stable sort: g goes behind every element that is not older than it
InsertByCreatedAt(g, s) ==
  LET ahead == {i \in 1..Len(s) : s[i].createdAt >= g.createdAt}
      n == IF ahead = {} THEN 0 ELSE CHOOSE i \in ahead : \A j \in ahead : j <= i
  IN SubSeq(s, 1, n) \o <<g>> \o SubSeq(s, n + 1, Len(s))
RECURSIVE SortByCreatedAt(_)
SortByCreatedAt(s) ==
  IF s = <<>> THEN <<>>
  ELSE InsertByCreatedAt(s[Len(s)], SortByCreatedAt(SubSeq(s, 1, Len(s) - 1)))
H_gamesForSelected(gs, sel) ==
  IF Trim(sel) = "" THEN <<>>
  ELSE SortByCreatedAt(FilterSeq(gs, {g \in SeqRange(gs) : Trim(g.playerName) = Trim(sel)}))

\* the player <select> of part_002: its options are playerNames
H_playerNames(gs, typed) ==
  ({Trim(gs[i].playerName) : i \in 1..Len(gs)} \cup {Trim(typed)}) \ {""}
H_setSelectedPlayer(p) ==
  /\ IsHistory
  /\ p \in H_playerNames(games, playerName)
  /\ selectedPlayer' = p
  /\ UNCHANGED <<counts, undoStack, games, lsGames, playerName, nextId, H_rest>>

\* the logs part_002 can have stored in an earlier visit: saveGame puts the
\* newest record at the head
H_StoredLogs ==
  {s \in UNION {[1..n -> [id : 1..MaxGames, createdAt : 0..MaxNow,
                          playerName : LogPlayers, counts : {H_emptyCounts}]]
                : n \in 0..MaxGames} :
     /\ \A i \in 1..Len(s) : s[i].id = Len(s) - i + 1
     /\ \A i \in 1..(Len(s) - 1) : s[i].createdAt >= s[i + 1].createdAt}

InitHistoryStored ==
  /\ revision = "history"
  /\ now = 0
  /\ counts = H_emptyCounts
  /\ undoStack = <<>>
  /\ games \in H_StoredLogs
  /\ lsGames = games
  /\ playerName = ""
  /\ selectedPlayer = H_firstName(games)
  /\ nextId = Len(games) + 1
  /\ ent = Absent
  /\ entAtStart = Absent
  /\ undoStackRef = <<>>
  /\ lsEnt = Absent
  /\ teamLogs = <<>>
  /\ lsTeamLogs = <<>>
  /\ selectedTeamLogId = 0
  /\ lsProgress = Absent
  /\ showUpgrade = FALSE
  /\ lsEntPage = Absent
  /\ lsRedeemed = <<>>
  /\ lsFlash = Absent
  /\ runs = [r \in Runs |-> IdleRun]
  /\ applied = [s \in 1..MaxSessions |-> 0]

\* finalize, remove, select and reload in part_001 and part_002, with two
\* player names
InitRecords == InitTracker \/ InitHistoryStored
NextRecords ==
  \/ Tick
  \/ \E v \in {" "} \cup LogPlayers : setPlayerName(v)
  \/ \E p \in {""} \cup LogPlayers : setSelectedPlayer(p)
  \/ \E id \in 1..MaxTeamLogs : setSelectedTeamLogId(id)
  \/ addTeamLog
  \/ saveGame
  \/ \E id \in 1..MaxGames : confirmDeleteGame(id)
  \/ Reload
  \/ \E v \in {" "} \cup LogPlayers : H_setPlayerName(v)
  \/ \E p \in LogPlayers : H_setSelectedPlayer(p)
  \/ H_saveGame
  \/ \E id \in 1..MaxGames : H_deleteGame(id)
  \/ H_Reload
SpecRecords == InitRecords /\ [][NextRecords]_vars

\* ---------------------------------------------------------------------
\* C23: after any sequence of finalizes, removals and reloads, the records
\* shown for the selected player and team scope are exactly the stored records
\* whose player name and team scope both equal the selection, each once,
\* newest first: in part_001 in the order of creation (the id is the creation
\* sequence number), in part_002 (no team scope) by createdAt descending.
\* ---------------------------------------------------------------------
C23_ShownRecordsMatchSelection ==
  LET shown == IF IsTracker
                 THEN gamesForSelectionList(games, selectedTeamLogId, selectedPlayer)
                 ELSE H_gamesForSelected(games, selectedPlayer)
      matches(g) == IF IsTracker
                      THEN g.playerName = selectedPlayer /\ g.teamLogId = selectedTeamLogId
                      ELSE g.playerName = selectedPlayer
      newer(a, b) == IF IsTracker THEN a.id > b.id ELSE a.createdAt >= b.createdAt
  IN /\ SeqRange(shown) = {g \in SeqRange(games) : matches(g)}
     /\ Len(shown) = Cardinality({i \in 1..Len(games) : matches(games[i])})
     /\ \A i, j \in 1..Len(shown) : i < j => newer(shown[i], shown[j])

\* two of three stored records are shown, the third is another player's
C23_Witness ==
  /\ IsTracker
  /\ Len(games) = 3
  /\ Len(gamesForSelectionList(games, selectedTeamLogId, selectedPlayer)) = 2
  /\ \E i \in 1..3 : games[i].playerName # selectedPlayer

\* =====================================================================
\* sumCounts: the season totals of a list of records
\* =====================================================================
IsTotals == revision = "totals"

\* games.reduce((acc, g) => {acc.k += g.counts.k ...; return acc}, {k: 0 ...})
RECURSIVE reduceCounts(_, _, _)
reduceCounts(keys, acc, gs) ==
  IF gs = <<>> THEN acc
  ELSE reduceCounts(keys, [k \in keys |-> acc[k] + Head(gs).counts[k]], Tail(gs))
sumCounts_lastOnly(gs) == IF gs = <<>> THEN ZeroCounts ELSE gs[Len(gs)].counts
\* src/unnamed/part_001
sumCounts(gs) == reduceCounts(Keys, [k \in Keys |-> 0], gs)
\* GameTracker.tsx: the keys of {...emptyCounts}
GT_sumCounts(gs) == reduceCounts(LiveKeys, emptyCounts, gs)

\* the record lists the totals are taken of
T_Logs ==
  UNION {[1..n -> [id : 1..MaxGames, counts : [Keys -> 0..MaxLive]]] : n \in 0..MaxGames}

InitTotals ==
  /\ revision = "totals"
  /\ now = 0
  /\ games \in {s \in T_Logs : \A i \in 1..Len(s) : s[i].id = Len(s) - i + 1}
  /\ lsGames = games
  /\ counts = ZeroCounts
  /\ undoStack = <<>>
  /\ playerName = ""
  /\ selectedPlayer = ""
  /\ nextId = Len(games) + 1
  /\ ent = Absent
  /\ entAtStart = Absent
  /\ undoStackRef = <<>>
  /\ lsEnt = Absent
  /\ teamLogs = <<>>
  /\ lsTeamLogs = <<>>
  /\ selectedTeamLogId = 0
  /\ lsProgress = Absent
  /\ showUpgrade = FALSE
  /\ lsEntPage = Absent
  /\ lsRedeemed = <<>>
  /\ lsFlash = Absent
  /\ runs = [r \in Runs |-> IdleRun]
  /\ applied = [s \in 1..MaxSessions |-> 0]

\* seasonTotals = sumCounts(...) of the first k records; the result is kept in
\* counts
T_seasonTotals(k) ==
  /\ IsTotals
  /\ k <= Len(games)
  /\ counts' = sumCounts(SubSeq(games, 1, k))
  /\ UNCHANGED <<games, lsGames, undoStack, playerName, selectedPlayer, nextId, ent,
                 teamLogs, selectedTeamLogId, showUpgrade, now, trackerStore, otherVars>>

NextTotals == \E k \in 0..MaxGames : T_seasonTotals(k)
SpecTotals == InitTotals /\ [][NextTotals]_vars

\* ---------------------------------------------------------------------
\* C24: the aggregate is the exact field-wise integer sum of the records'
\* counts: the aggregate of no records is all zeros, of one record its counts,
\* of A ++ B the field-wise sum of the aggregates of A and of B, and it does
\* not depend on the order of the records.
\* ---------------------------------------------------------------------
C24_AggregateIsFieldwiseSum ==
  LET plus(a, b) == [k \in DOMAIN a |-> a[k] + b[k]]
      A(k) == SubSeq(games, 1, k)
      B(k) == SubSeq(games, k + 1, Len(games))
      swapped(i, j) == [games EXCEPT ![i] = games[j], ![j] = games[i]]
      only(keys, c) == [k \in keys |-> c[k]]
  IN /\ sumCounts(<<>>) = [k \in Keys |-> 0]
     /\ GT_sumCounts(<<>>) = [k \in LiveKeys |-> 0]
     /\ \A i \in 1..Len(games) :
          /\ sumCounts(<<games[i]>>) = games[i].counts
          /\ GT_sumCounts(<<games[i]>>) = only(LiveKeys, games[i].counts)
     /\ \A k \in 0..Len(games) :
          /\ sumCounts(games) = plus(sumCounts(A(k)), sumCounts(B(k)))
          /\ GT_sumCounts(games) = plus(GT_sumCounts(A(k)), GT_sumCounts(B(k)))
     /\ \A i, j \in 1..Len(games) :
          /\ sumCounts(swapped(i, j)) = sumCounts(games)
          /\ GT_sumCounts(swapped(i, j)) = GT_sumCounts(games)

\* the totals of the first two of three different records were taken
C24_Witness ==
  /\ IsTotals
  /\ Len(games) = 3
  /\ games[1].counts # games[2].counts
  /\ games[2].counts # games[3].counts
  /\ counts = sumCounts(SubSeq(games, 1, 2))
  /\ \A k \in Keys : counts[k] > MaxLive

\* src/unnamed/part_000 (first component) as its buttons drive it
NextActions == ActionsActions
SpecActions == InitActions /\ [][NextActions]_vars

\* ---------------------------------------------------------------------
\* C25: every made-shot tap also counts as an attempt: after k made-2PT taps
\* and nothing else (the history holds exactly those k taps), points = 2k and
\* field goals made = field goals attempted = k.
\* ---------------------------------------------------------------------
C25_MadeShotCountsAttempt ==
  IsActions /\ (\A i \in 1..Len(undoStack) : undoStack[i].key = "pts") =>
    /\ counts["pts"] = 2 * Len(undoStack)
    /\ counts["fgMade"] = Len(undoStack)
    /\ counts["fgAtt"] = Len(undoStack)

\* ---------------------------------------------------------------------
\* C26: write-through persistence round-trips: in every state the stored
\* games, entitlement and team logs equal the ones in memory, and a reload of
\* the tracker reconstructs exactly the game records, the entitlement and the
\* team-log list that were in memory before it.
\* ---------------------------------------------------------------------
C26_ReloadRoundTrips ==
  /\ [](IsTracker \/ IsPerPlayer =>
          lsGames = games /\ lsEnt = ent /\ lsTeamLogs = teamLogs)
  /\ [][Reload \/ GT_Reload =>
          games' = games /\ ent' = ent /\ teamLogs' = teamLogs]_vars

\* the tracker was reloaded over a stored draft (live counts without undo
\* history), a game log, a second team log and a spent trial save
C26_Witness ==
  /\ IsTracker
  /\ undoStack = <<>>
  /\ \E k \in Keys : counts[k] > 0
  /\ Len(games) >= 1
  /\ Len(teamLogs) = 2
  /\ ent.freeSavesUsed >= 1

\* =====================================================================
\* src/unnamed/part_000 (second component): the tracker whose Undo button
\* takes back the last saved game
\* =====================================================================
IsLastSave == revision = "lastSave"
U_Keys == {"made2"}
U_emptyCounts == [k \in U_Keys |-> 0]
U_FreshEnt(t) == [plan |-> "free", singleCreditsUsed |-> 0, updatedAt |-> t]
\* canSaveAnotherGame()
canSaveAnotherGame(e) == e.plan # "free" \/ e.singleCreditsUsed < TRIAL_FREE_GAMES

\* lastSavedEntry is kept in undoStack: <<>> for null, else the one entry
InitLastSave ==
  /\ revision = "lastSave"
  /\ now = 0
  /\ counts = U_emptyCounts
  /\ undoStack = <<>>
  /\ games = <<>>
  /\ lsGames = <<>>
  /\ playerName = ""
  /\ selectedPlayer = ""
  /\ nextId = 1
  /\ ent = U_FreshEnt(0)
  /\ entAtStart = U_FreshEnt(0)
  /\ undoStackRef = <<>>
  /\ lsEnt = U_FreshEnt(0)
  /\ teamLogs = <<1>>
  /\ lsTeamLogs = <<1>>
  /\ selectedTeamLogId = 1
  /\ lsProgress = Absent
  /\ showUpgrade = FALSE
  /\ lsEntPage = Absent
  /\ lsRedeemed = <<>>
  /\ lsFlash = Absent
  /\ runs = [r \in Runs |-> IdleRun]
  /\ applied = [s \in 1..MaxSessions |-> 0]

U_rest == <<teamLogs, selectedTeamLogId, lsTeamLogs, lsProgress, now, otherVars>>

\* a stat button: inc(key, 1)
U_inc(key) ==
  /\ IsLastSave
  /\ counts[key] < MaxCount
  /\ counts' = [counts EXCEPT ![key] = clamp0(counts[key] + 1)]
  /\ UNCHANGED <<undoStack, games, lsGames, playerName, selectedPlayer, nextId,
                 ent, lsEnt, showUpgrade, U_rest>>

\* Reset, confirmed: resetLive
U_resetLive ==
  /\ IsLastSave
  /\ counts' = U_emptyCounts
  /\ UNCHANGED <<undoStack, games, lsGames, playerName, selectedPlayer, nextId,
                 ent, lsEnt, showUpgrade, U_rest>>

U_setPlayerName(v) ==
  /\ IsLastSave
  /\ playerName' = v
  /\ UNCHANGED <<counts, undoStack, games, lsGames, selectedPlayer, nextId,
                 ent, lsEnt, showUpgrade, U_rest>>

U_closeUpgrade ==
  /\ IsLastSave
  /\ showUpgrade
  /\ showUpgrade' = FALSE
  /\ UNCHANGED <<counts, undoStack, games, lsGames, playerName, selectedPlayer,
                 nextId, ent, lsEnt, U_rest>>

\* confirmSaveGame, then saveGame
U_saveGame ==
  /\ IsLastSave
  /\ LET p == Trim(playerName)
     IN IF p = ""
          THEN UNCHANGED <<counts, undoStack, games, lsGames, selectedPlayer, nextId,
                           ent, lsEnt, showUpgrade>>
          ELSE IF ~canSaveAnotherGame(ent)
            THEN /\ showUpgrade' = TRUE
                 /\ UNCHANGED <<counts, undoStack, games, lsGames, selectedPlayer,
                                nextId, ent, lsEnt>>
            ELSE /\ nextId <= MaxGames
                 /\ LET entry == [id |-> nextId, teamLogId |-> selectedTeamLogId,
                                  playerName |-> p, counts |-> counts]
                        spent == IF ent.plan = "free"
                                   THEN [ent EXCEPT
                                           !.singleCreditsUsed = ent.singleCreditsUsed + 1,
                                           !.updatedAt = now]
                                   ELSE ent
                    IN /\ games' = <<entry>> \o games
                       /\ lsGames' = <<entry>> \o games
                       /\ undoStack' = <<entry>>
                       /\ ent' = spent
                       /\ lsEnt' = spent
                 /\ selectedPlayer' = p
                 /\ counts' = U_emptyCounts
                 /\ nextId' = nextId + 1
                 /\ UNCHANGED showUpgrade
  /\ UNCHANGED <<playerName, U_rest>>

U_undoLastSave_refunds ==
  /\ IsLastSave
  /\ undoStack # <<>>
  /\ games' = removeGame(games, undoStack[1].id)
  /\ lsGames' = removeGame(games, undoStack[1].id)
  /\ undoStack' = <<>>
  /\ ent' = [ent EXCEPT !.singleCreditsUsed = Max0(@ - 1)]
  /\ lsEnt' = [ent EXCEPT !.singleCreditsUsed = Max0(@ - 1)]
  /\ UNCHANGED <<counts, playerName, selectedPlayer, nextId, showUpgrade, U_rest>>

\* Undo, confirmed in the "Undo last save?" dialog: undoLastSave
U_undoLastSave ==
  /\ IsLastSave
  /\ IF undoStack = <<>>
       THEN UNCHANGED <<games, lsGames, undoStack, selectedPlayer>>
       ELSE /\ games' = removeGame(games, undoStack[1].id)
            /\ lsGames' = removeGame(games, undoStack[1].id)
            /\ undoStack' = <<>>
            /\ selectedPlayer' =
                 syncSelectedPlayer(selectedPlayer, removeGame(games, undoStack[1].id),
                                    selectedTeamLogId, games, selectedTeamLogId)
  /\ UNCHANGED <<counts, playerName, nextId, ent, lsEnt, showUpgrade, U_rest>>

\* Delete on a listed game, confirmed: confirmDeleteGame
U_confirmDeleteGame(id) ==
  /\ IsLastSave
  /\ id \in {g.id : g \in gamesForSelection(games, selectedTeamLogId, selectedPlayer)}
  /\ games' = removeGame(games, id)
  /\ lsGames' = removeGame(games, id)
  /\ undoStack' = IF undoStack # <<>> /\ undoStack[1].id = id THEN <<>> ELSE undoStack
  /\ selectedPlayer' = syncSelectedPlayer(selectedPlayer, removeGame(games, id),
                                          selectedTeamLogId, games, selectedTeamLogId)
  /\ UNCHANGED <<counts, playerName, nextId, ent, lsEnt, showUpgrade, U_rest>>

\* the page is loaded again
U_Reload ==
  /\ IsLastSave
  /\ games' = lsGames
  /\ ent' = lsEnt
  /\ counts' = U_emptyCounts
  /\ undoStack' = <<>>
  /\ playerName' = ""
  /\ selectedPlayer' = FirstSorted(playersForTeamLog(lsGames, teamLogs[1]))
  /\ showUpgrade' = FALSE
  /\ UNCHANGED <<lsGames, lsEnt, nextId, U_rest>>

LastSaveActions ==
  \/ \E k \in U_Keys : U_inc(k)
  \/ U_resetLive
  \/ \E v \in TypedNames : U_setPlayerName(v)
  \/ U_closeUpgrade
  \/ U_saveGame
  \/ U_undoLastSave
  \/ \E id \in 1..MaxGames : U_confirmDeleteGame(id)
  \/ U_Reload

\* every component that keeps a game log over its handlers, and the purchase
\* path of part_001, within one tick of the clock
InitLedger == InitTracker \/ InitHistory \/ InitActions \/ InitLastSave
NextLedger ==
  \/ \E label \in Taps : tap(label)
  \/ undoLastAction
  \/ resetLive
  \/ \E v \in TypedNames : setPlayerName(v)
  \/ addTeamLog
  \/ saveProgress
  \/ closeUpgrade
  \/ saveGame
  \/ \E id \in 1..MaxGames : confirmDeleteGame(id)
  \/ Reload
  \/ \E plan \in CheckoutPlans, res \in CheckoutResults : startCheckout(plan, res)
  \/ \E r \in Runs, res \in VerifyResults : verified(r, res)
  \/ \E r \in Runs : markRedeemed(r)
  \/ \E r \in Runs : writeFlash(r)
  \/ returnToTracker
  \/ HistoryActions
  \/ ActionsActions
  \/ LastSaveActions
SpecLedger == InitLedger /\ [][NextLedger]_vars

C28_TeamLogAlwaysExists ==
  /\ [](IsTracker => /\ Len(teamLogs) >= 1
                     /\ selectedTeamLogId \in SeqRange(teamLogs)
                     /\ lsTeamLogs = teamLogs)
  /\ [][IsTracker => /\ Len(teamLogs') >= Len(teamLogs)
                     /\ \A id \in SeqRange(teamLogs) : id \in SeqRange(teamLogs')]_vars

\* a team log was added to the default one and an older one is selected, as
\* after a pick in the list
C28_Witness ==
  /\ IsTracker
  /\ Len(teamLogs) >= 2
  /\ selectedTeamLogId # teamLogs[1]

\* =====================================================================
\* Long sessions: one stat button tapped up to MaxTaps times, so that the undo
\* record reaches UNDO_CAP. part_001 records through pushUndo, part_002 by
\* appending to its history.
\* =====================================================================
IsLongTracker == revision = "longTracker"
IsLongHistory == revision = "longHistory"
S_Tap == "Missed FT"
S_Key == "to"

InitLong ==
  /\ \/ revision = "longTracker" /\ counts = ZeroCounts
     \/ revision = "longHistory" /\ counts = H_emptyCounts
  /\ now = 0
  /\ undoStack = <<>>
  /\ games = <<>>
  /\ lsGames = <<>>
  /\ playerName = ""
  /\ selectedPlayer = ""
  /\ nextId = 1
  /\ ent = Absent
  /\ entAtStart = Absent
  /\ undoStackRef = <<>>
  /\ lsEnt = Absent
  /\ teamLogs = <<>>
  /\ lsTeamLogs = <<>>
  /\ selectedTeamLogId = 0
  /\ lsProgress = Absent
  /\ showUpgrade = FALSE
  /\ lsEntPage = Absent
  /\ lsRedeemed = <<>>
  /\ lsFlash = Absent
  /\ runs = [r \in Runs |-> IdleRun]
  /\ applied = [s \in 1..MaxSessions |-> 0]

S_rest == <<ent, games, playerName, selectedPlayer, teamLogs, selectedTeamLogId,
            showUpgrade, nextId, now, trackerStore, otherVars>>

\* part_001: doAction(label, apply, revert) of a stat button
S_doAction ==
  /\ IsLongTracker
  /\ \A k \in Keys : Apply(S_Tap, counts)[k] <= MaxTaps
  /\ counts' = Apply(S_Tap, counts)
  /\ undoStack' = pushUndo(undoStack, UndoAction(S_Tap, counts))
  /\ UNCHANGED S_rest

\* part_001: undoLastAction
S_undoLastAction ==
  /\ IsLongTracker
  /\ IF undoStack = <<>>
       THEN UNCHANGED <<counts, undoStack>>
       ELSE /\ counts' = Revert(Head(undoStack).label, counts)
            /\ undoStack' = Tail(undoStack)
  /\ UNCHANGED S_rest

\* part_002: inc(key, tapId)
S_inc ==
  /\ IsLongHistory
  /\ counts[S_Key] < MaxTaps
  /\ counts' = [counts EXCEPT ![S_Key] = counts[S_Key] + 1]
  /\ undoStack' = Append(undoStack, H_Action("inc", S_Key, counts))
  /\ UNCHANGED S_rest

\* part_002: undo
S_undo ==
  /\ IsLongHistory
  /\ IF undoStack = <<>>
       THEN UNCHANGED <<counts, undoStack>>
       ELSE /\ counts' = H_undone(Last(undoStack), counts)
            /\ undoStack' = Front(undoStack)
  /\ UNCHANGED S_rest

NextLong ==
  \/ S_doAction
  \/ S_undoLastAction
  \/ S_inc
  \/ S_undo
SpecLong == InitLong /\ [][NextLong]_vars

\* ---------------------------------------------------------------------
\* C29: the undo record never holds more than the cap of 80 entries.
\* Violated in part_002, whose history is appended to without a cap; in
\* part_001 pushUndo keeps the newest 80.
\* ---------------------------------------------------------------------
C29_UndoHistoryWithinCap == Len(undoStack) <= UNDO_CAP

\* ---------------------------------------------------------------------
\* C30: a finalize that passes the name check and the gate stores one new
\* record at the head of the log whose counts are the live counts of that
\* moment, leaves the older records behind it unchanged, and resets every live
\* counter to 0; taps, undos and resets afterwards never change the log.
\* ---------------------------------------------------------------------
C30_FinalizeSnapshotsAndResets ==
  /\ [][saveGame /\ Trim(playerName) # "" /\ canFinishGame(ent) =>
          /\ Len(games') = Len(games) + 1
          /\ Head(games').counts = counts
          /\ Head(games').playerName = Trim(playerName)
          /\ Tail(games') = games
          /\ lsGames' = games'
          /\ counts' = ZeroCounts]_vars
  /\ [][(\E label \in Taps : tap(label)) \/ undoLastAction \/ resetLive =>
          games' = games /\ lsGames' = lsGames]_vars

\* a game with counted stats is at the head of the log and taps made since
\* then put the live counts at other, non-zero values
C30_Witness ==
  /\ IsTracker
  /\ games # <<>>
  /\ Head(games).counts # ZeroCounts
  /\ counts # ZeroCounts
  /\ counts # Head(games).counts

\* ---------------------------------------------------------------------
\* C31: from the first-run state, over every sequence of finalize attempts,
\* checkouts and redemptions, the tracker's entitlement and the one the
\* success page stores have creditsRemaining >= 0 and
\* 0 <= freeSavesUsed <= TRIAL_FREE_GAMES.
\* ---------------------------------------------------------------------
C31_EntitlementWithinRange ==
  entAtStart = FreshEnt(0) =>
    /\ \A e \in {ent, lsEnt} :
         /\ e.creditsRemaining \in Nat
         /\ e.freeSavesUsed \in 0..TRIAL_FREE_GAMES
    /\ lsEntPage # Absent =>
         /\ lsEntPage.creditsRemaining \in Nat
         /\ lsEntPage.freeSavesUsed \in 0..TRIAL_FREE_GAMES

\* the trial is used up and a redeemed purchase has put credits in the record
\* the success page stores
C31_Witness ==
  /\ entAtStart = FreshEnt(0)
  /\ ent.freeSavesUsed = TRIAL_FREE_GAMES
  /\ lsEntPage # Absent
  /\ lsEntPage.creditsRemaining > 0

\* =====================================================================
\* Loading over a storage in any condition: the tracker's mount (part_001) and
\* the success page's reads before it applies a purchase (part_003)
\* =====================================================================
IsLoad == revision = "load"

\* what the entitlement key can hold: nothing, text that is not JSON, a record
\* of the current shape, or a record of an older shape
RawEnts ==
  Unreadable
    \cup [plan : {"free", "credits", "annual"}, creditsRemaining : 0..MaxCredits,
          freeSavesUsed : 0..TRIAL_FREE_GAMES, updatedAt : {0},
          singleCreditsUsed : {0}]
    \cup {[plan |-> "season", singleCreditsUsed |-> 1, updatedAt |-> 0],
          [savesRemaining |-> 2, unlimitedUntil |-> 0, redeemedSessions |-> <<>>]}
\* what the redeemed-sessions key can hold; [ids |-> l] is the JSON text of
\* the list l
RawRedeemed == Unreadable \cup {[ids |-> l] : l \in {<<>>, <<1>>, <<2, 1>>}}

InitLoad ==
  /\ revision = "load"
  /\ now = 0
  /\ \/ lsEnt \in RawEnts /\ lsEntPage = Absent /\ lsRedeemed = Absent
     \/ lsEnt = Absent /\ lsEntPage \in RawEnts /\ lsRedeemed \in RawRedeemed
  /\ ent = Absent
  /\ entAtStart = Absent
  /\ undoStackRef = <<>>
  /\ lsGames = <<>>
  /\ games = <<>>
  /\ teamLogs = <<>>
  /\ lsTeamLogs = <<>>
  /\ selectedTeamLogId = 0
  /\ selectedPlayer = ""
  /\ counts = ZeroCounts
  /\ playerName = ""
  /\ lsProgress = Absent
  /\ undoStack = <<>>
  /\ showUpgrade = FALSE
  /\ nextId = 1
  /\ lsFlash = Absent
  /\ runs = [r \in Runs |-> IdleRun]
  /\ applied = [s \in 1..MaxSessions |-> 0]

\* part_001: the component mounts (loadEntitlement, load effect, persist effects)
Ld_mount ==
  /\ IsLoad
  /\ MountTracker
  /\ UNCHANGED <<now, otherVars>>

\* part_003: a paid verification reached `const ent = loadEnt()` and
\* `const redeemed = safeParse(getItem(redeemedKey), [])`
Ld_page(s) ==
  /\ IsLoad
  /\ ent' = loadEnt(safeParse(lsEntPage, Absent), now)
  /\ runs' = [runs EXCEPT ![1] = [pc |-> "loaded", sessionId |-> s,
                                  msg |-> "Verifying payment...",
                                  redeemed |-> safeParse(lsRedeemed, [ids |-> <<>>]).ids]]
  /\ UNCHANGED <<games, counts, undoStack, playerName, selectedPlayer, teamLogs,
                 selectedTeamLogId, showUpgrade, nextId, trackerStore, now,
                 revision, pageStore, applied, entAtStart, undoStackRef>>

NextLoad ==
  \/ Ld_mount
  \/ \E s \in Sessions : Ld_page(s)
SpecLoad == InitLoad /\ [][NextLoad]_vars

\* ---------------------------------------------------------------------
\* C32: when the stored entitlement is absent or is not valid JSON, loading
\* it (the tracker's mount, the success page's loadEnt) yields plan free,
\* creditsRemaining 0 and freeSavesUsed 0, and when the stored redeemed list
\* is absent or not valid JSON the page reads it as the empty list.
\* ---------------------------------------------------------------------
C32_UnreadableLoadsDefaults ==
  /\ [][Ld_mount /\ lsEnt \in Unreadable =>
          /\ ent'.plan = "free"
          /\ ent'.creditsRemaining = 0
          /\ ent'.freeSavesUsed = 0
          /\ lsEnt' = ent']_vars
  /\ [][\A s \in Sessions :
          Ld_page(s) =>
            /\ lsEntPage \in Unreadable =>
                 /\ ent'.plan = "free"
                 /\ ent'.creditsRemaining = 0
                 /\ ent'.freeSavesUsed = 0
            /\ lsRedeemed \in Unreadable => runs'[1].redeemed = <<>>]_vars

\* the page loaded over an entitlement and a redeemed list that do not parse
C32_Witness ==
  /\ IsLoad
  /\ runs[1].pc = "loaded"
  /\ lsEntPage = Garbled
  /\ lsRedeemed = Garbled
  /\ ent = FreshEnt(0)

\* the number of finalizes a non-annual entitlement still allows: saveGame's
\* gate and spend, repeated until the gate closes
RECURSIVE finalizesLeft(_)
finalizesLeft(e) ==
  IF ~canFinishGame(e) THEN 0 ELSE 1 + finalizesLeft(spendFinishCredit(e, 0))
\* entitlement a allows at least as many finalizes as entitlement b
allowsNoFewer(a, b) ==
  IF a.plan = "annual" THEN TRUE
  ELSE IF b.plan = "annual" THEN FALSE
  ELSE finalizesLeft(a) >= finalizesLeft(b)

\* ---------------------------------------------------------------------
\* C33: redeeming a recognized product never lowers the number of finalizes
\* the entitlement still allows. Violated: a credit product bought on the free
\* plan replaces the unused trial finalizes by the credits bought.
\* ---------------------------------------------------------------------
C33_RedemptionNeverLowersAllowance ==
  [][\A r \in Runs :
       (verified(r, "paid") /\ PlanOf(runs[r].sessionId) \in CheckoutPlans
          /\ lsEntPage' # lsEntPage)
       => allowsNoFewer(lsEntPage', loadEnt(lsEntPage, now))]_vars

\* =====================================================================
\* part_001 with the undo stack's ref apart from the state: the handlers read
\* undoStackRef.current, which the effect on [undoStack] (296-298) refreshes
\* after the render that follows a handler
\* =====================================================================
IsRef == revision = "ref"

InitRef ==
  /\ revision = "ref"
  /\ now = 0
  /\ counts = ZeroCounts
  /\ undoStack = <<>>
  /\ undoStackRef = <<>>
  /\ games = <<>>
  /\ lsGames = <<>>
  /\ playerName = ""
  /\ selectedPlayer = ""
  /\ nextId = 1
  /\ ent = Absent
  /\ entAtStart = Absent
  /\ lsEnt = Absent
  /\ teamLogs = <<>>
  /\ lsTeamLogs = <<>>
  /\ selectedTeamLogId = 0
  /\ lsProgress = Absent
  /\ showUpgrade = FALSE
  /\ lsEntPage = Absent
  /\ lsRedeemed = <<>>
  /\ lsFlash = Absent
  /\ runs = [r \in Runs |-> IdleRun]
  /\ applied = [s \in 1..MaxSessions |-> 0]

R_rest == <<ent, games, playerName, selectedPlayer, teamLogs, selectedTeamLogId,
            showUpgrade, nextId, now, trackerStore, revision, pageStore, runs,
            applied, entAtStart>>

\* a stat button: doAction(label, apply, revert), and the render
R_doAction(label) ==
  /\ IsRef
  /\ \A k \in Keys : Apply(label, counts)[k] <= MaxLive
  /\ counts' = Apply(label, counts)
  /\ undoStack' = pushUndo(undoStack, UndoAction(label, counts))
  /\ UNCHANGED <<undoStackRef, R_rest>>

\* the Undo button of the confirm dialog (enabled while the rendered stack is
\* not empty): undoLastAction reads the ref, reverts its first entry and
\* slices the first entry off the state
R_undoLastAction ==
  /\ IsRef
  /\ undoStack # <<>>
  /\ IF undoStackRef = <<>>
       THEN UNCHANGED <<counts, undoStack>>
       ELSE /\ counts' = Revert(Head(undoStackRef).label, counts)
            /\ undoStack' = Tail(undoStack)
  /\ UNCHANGED <<undoStackRef, R_rest>>

\* the effect on [undoStack]: undoStackRef.current = undoStack
R_refreshRef ==
  /\ IsRef
  /\ undoStackRef # undoStack
  /\ undoStackRef' = undoStack
  /\ UNCHANGED <<counts, undoStack, R_rest>>

NextRef ==
  \/ \E label \in Taps : R_doAction(label)
  \/ R_undoLastAction
  \/ R_refreshRef
SpecRef == InitRef /\ [][NextRef]_vars

C35_UndoRevertsWholeTap ==
  /\ [][\A label \in Taps :
          tap(label) => /\ Head(undoStack').before = counts
                        /\ Tail(undoStack') = undoStack]_vars
  /\ [][undoLastAction /\ undoStack # <<>> => counts' = Head(undoStack).before]_vars
  /\ [][\A b \in A_Buttons :
          A_click(b, TRUE) => /\ Last(undoStack').before = counts
                              /\ Front(undoStack') = undoStack]_vars
  /\ [][A_undo /\ undoStack # <<>> => counts' = Last(undoStack).before]_vars

\* part_001: a made free throw, which changed two counters, is the most recent
\* entry of the undo stack
C35_Witness ==
  /\ IsTracker
  /\ undoStack # <<>>
  /\ Head(undoStack).label = "Made FT"
  /\ counts["ftm"] = Head(undoStack).before["ftm"] + 1
  /\ counts["fta"] = Head(undoStack).before["fta"] + 1

\* ---------------------------------------------------------------------
\* C36: on the free plan the gate of GameTracker.tsx's saveGame is decided by
\* the saved games of the entered player: a finalize for a typed name goes
\* through exactly when that player has fewer than TRIAL_SAVES games in the
\* log, whichever player is selected in the log view. Violated: the gate
\* counts the games of the selected player.
\* ---------------------------------------------------------------------
C36_GateCountsEnteredPlayer ==
  [][(GT_saveGame /\ Trim(playerName) # "" /\ ~isPaid(ent))
     => (games' # games <=> savedForPlayer(games, Trim(playerName)) < TRIAL_SAVES)]_vars

\* ---------------------------------------------------------------------
\* C37: removing a game record, by a confirmed delete or by the undo of the
\* last save, leaves the entitlement as it is, in memory and stored: the free
\* saves used are not lowered and the credits are not raised, so the finalize
\* of the removed record stays charged.
\* ---------------------------------------------------------------------
C37_RemovalKeepsEntitlement ==
  [][(\/ \E id \in 1..MaxGames :
           confirmDeleteGame(id) \/ U_confirmDeleteGame(id)
      \/ U_undoLastSave)
     => ent' = ent /\ lsEnt' = lsEnt]_vars

\* part_000: the only saved game was removed again and its free save is still
\* counted as used
C37_Witness ==
  /\ IsLastSave
  /\ games = <<>>
  /\ undoStack = <<>>
  /\ ent.plan = "free"
  /\ ent.singleCreditsUsed > 0

\* the plan tokens the checkout route accepts (getPriceId returns a price for
\* them, every other value throws) and stores as metadata.plan; the verify
\* route returns session.metadata.plan as it is
RoutePlans == {"single_game", "season", "unlimited_monthly", "unlimited_annual"}

\* ---------------------------------------------------------------------
\* C38: a plan token that the checkout route accepts is, when a paid
\* verification returns it and the success page applies it, one of the tokens
\* the page knows, and the entitlement stored afterwards is usable (annual, or
\* creditsRemaining > 0). Violated: the route's tokens and the page's tokens
\* have no member in common.
\* ---------------------------------------------------------------------
C38_AcceptedTokenIsRedeemable ==
  [][\A r \in Runs :
       (verified(r, "paid") /\ PlanOf(runs[r].sessionId) \in RoutePlans
          /\ lsEntPage' # lsEntPage)
       => /\ PlanOf(runs[r].sessionId) \in CheckoutPlans
          /\ lsEntPage'.plan = "annual" \/ lsEntPage'.creditsRemaining > 0]_vars

\* =====================================================================
\* part_001, the free-throw buttons over a longer game: up to MaxShots free
\* throws, made or missed, with undo and reset
\* =====================================================================
InitFreeThrows == InitLong /\ IsLongTracker

\* Made FT / Missed FT: doAction(label, apply, revert)
S_tap(label) ==
  /\ IsLongTracker
  /\ \A k \in Keys : Apply(label, counts)[k] <= MaxShots
  /\ counts' = Apply(label, counts)
  /\ undoStack' = pushUndo(undoStack, UndoAction(label, counts))
  /\ UNCHANGED S_rest

\* Reset, confirmed: resetLive
S_resetLive ==
  /\ IsLongTracker
  /\ counts' = ZeroCounts
  /\ undoStack' = <<>>
  /\ UNCHANGED S_rest

NextFreeThrows ==
  \/ \E label \in Taps : S_tap(label)
  \/ S_undoLastAction
  \/ S_resetLive
SpecFreeThrows == InitFreeThrows /\ [][NextFreeThrows]_vars

\* ---------------------------------------------------------------------
\* C39: in every reachable state of the live counts the made free throws do
\* not exceed the attempted ones (ftm <= fta), over made-FT taps, missed-FT
\* taps, undos and resets.
\* ---------------------------------------------------------------------
C39_MadeWithinAttempted ==
  (IsTracker \/ IsLongTracker) => counts["ftm"] <= counts["fta"]

\* made and missed free throws were both tapped, the latest a miss, and every
\* attempt counted is still on the undo stack
C39_Witness ==
  /\ IsLongTracker
  /\ counts["ftm"] >= 1
  /\ counts["fta"] > counts["ftm"]
  /\ undoStack # <<>>
  /\ Head(undoStack).label = "Missed FT"
  /\ Len(undoStack) = counts["fta"]
====
